---- MODULE Spec2Model ----
(***************************************************************************)
(* Model of the polymarket-cli snapshot chain: the SnapshotRepository      *)
(* (saveFirstSnapshot, saveSnapshotWithEvents, getLatest) over the         *)
(* snapshots and events tables, the pure computeDiff function and the      *)
(* SnapshotService.takeSnapshot orchestration.                             *)
(*                                                                         *)
(* Conventions: a nullable value is a sequence of length 0 (null) or 1;    *)
(* prices are fixed-point integers (price * PriceScale); a wallet address  *)
(* is a sequence of tokens; timestamps are integers ordered like the ISO   *)
(* strings the code stores and compares as text.                           *)
(***************************************************************************)
EXTENDS Integers, Sequences, FiniteSets, TLC

VARIABLES snapshots, events, uuidCounter, last, polymarket, recent, inflight

vars == <<snapshots, events, uuidCounter, last, polymarket, recent, inflight>>

(* What is outside the store: the market as Polymarket has it, the last    *)
(* two calls that went through the Polymarket client, and the calls that   *)
(* are under way.                                                          *)
world == <<polymarket, recent, inflight>>

----------------------------------------------------------------------------
(* Bounds *)

MaxSnapshots == 3
MaxTs == 2
MaxUuid == 4
MaxShares == 2
MaxRetries == 3

----------------------------------------------------------------------------
(* Value domains *)

Null == <<>>
Some(x) == <<x>>
IsNull(o) == Len(o) = 0
Get(o) == o[1]

PriceScale == 100

Wallets == {<<"0x", "a">>, <<"0x", "b">>}
(* What takeSnapshot is called with: an address with surrounding           *)
(* whitespace, a malformed address, whitespace only.                       *)
RawWallets == {<<" ", "0x", "a", " ">>, <<"0x", "g">>, <<" ">>}
HexDigits == {"a", "b"}
Whitespace == {" "}
Timestamps == 1..MaxTs
ExternalEventIds == {101, 102}
ApiErrors == {"NetworkError"}

Position(m, ys, ns, yp, np, o) ==
    [marketId |-> m, marketTitle |-> "T", yesShares |-> ys, noShares |-> ns,
     yesAvgPrice |-> yp, noAvgPrice |-> np, resolvedOutcome |-> o]

(* The position lists the provider returns: no position, a position, and  *)
(* the same market with more shares and resolved.                          *)
ProviderPositions ==
    {<<>>,
     <<Position("m1", 1, 0, Some(50), Null, "unresolved")>>,
     <<Position("m1", 2, 0, Some(50), Null, "yes")>>}

(* The repository stores the positions as an opaque JSON document. *)
RepositoryPositions ==
    {<<Position("m1", 1, 0, Some(50), Null, "unresolved")>>}

Snapshot(w, ts, ps) == [wallet |-> w, timestamp |-> ts, positions |-> ps]

(* The snapshots computeDiff is applied to on its own: a YES position in   *)
(* m1 with every share count, price and outcome, a NO position in m2,      *)
(* open or resolved, in either order; a market occurs once in a snapshot.  *)
MarketOutcomes == {"unresolved", "yes", "no", "invalid"}
DiffPrices == {Some(50), Some(60)}
DiffPositionsM1 ==
    {Position("m1", ys, 0, yp, Null, o) :
        ys \in 1..MaxShares, yp \in DiffPrices, o \in MarketOutcomes}
DiffPositionsM2 ==
    {Position("m2", 0, 1, Null, Some(50), o) : o \in {"unresolved", "yes"}}
DiffPositionLists ==
    {<<>>}
    \cup {<<p>> : p \in DiffPositionsM1 \cup DiffPositionsM2}
    \cup {<<p, q>> : p \in DiffPositionsM1, q \in DiffPositionsM2}
    \cup {<<q, p>> : p \in DiffPositionsM1, q \in DiffPositionsM2}
DiffSnapshots == {Snapshot(<<"0x", "a">>, 1, ps) : ps \in DiffPositionLists}

(* The positions calculatePnL is applied to on its own: whole share counts *)
(* and prices in hundredths on both sides.                                 *)
PnLShares == {0, 1, 100, 200}
PnLPrices == {Null, Some(40), Some(50), Some(55)}
PnLPositions ==
    {Position("m1", ys, ns, yp, np, o) :
        ys \in PnLShares, ns \in PnLShares, yp \in PnLPrices,
        np \in PnLPrices, o \in MarketOutcomes \ {"unresolved"}}

----------------------------------------------------------------------------
(* Sequence helpers *)

RECURSIVE Flatten(_)
Flatten(ss) == IF Len(ss) = 0 THEN <<>> ELSE Head(ss) \o Flatten(Tail(ss))

----------------------------------------------------------------------------
(* computeDiff (src/src/diff/computeDiff.ts) *)

(* new Map(positions.map(p => [p.marketId, p])).get(m): a later entry with *)
(* the same key replaces an earlier one.                                   *)
MapGet(positions, m) ==
    LET idx == {i \in 1..Len(positions) : positions[i].marketId = m}
    IN  IF idx = {} THEN Null
        ELSE Some(positions[CHOOSE i \in idx : \A j \in idx : j <= i])

(* The eventId (crypto.randomUUID()) is filled in by AssignIds, in the     *)
(* order in which computeDiff creates the events.                          *)
createEvent(type, wallet, marketId, marketTitle, prev, curr) ==
    [eventId |-> 0,
     wallet |-> wallet,
     eventType |-> type,
     marketId |-> marketId,
     marketTitle |-> marketTitle,
     prevYesShares |-> IF IsNull(prev) THEN Null ELSE Some(Get(prev).yesShares),
     prevNoShares |-> IF IsNull(prev) THEN Null ELSE Some(Get(prev).noShares),
     prevYesAvgPrice |-> IF IsNull(prev) THEN Null ELSE Get(prev).yesAvgPrice,
     prevNoAvgPrice |-> IF IsNull(prev) THEN Null ELSE Get(prev).noAvgPrice,
     currYesShares |-> IF IsNull(curr) THEN Null ELSE Some(Get(curr).yesShares),
     currNoShares |-> IF IsNull(curr) THEN Null ELSE Some(Get(curr).noShares),
     currYesAvgPrice |-> IF IsNull(curr) THEN Null ELSE Get(curr).yesAvgPrice,
     currNoAvgPrice |-> IF IsNull(curr) THEN Null ELSE Get(curr).noAvgPrice,
     resolvedOutcome |->
        IF ~IsNull(curr) THEN Get(curr).resolvedOutcome
        ELSE IF ~IsNull(prev) THEN Get(prev).resolvedOutcome
        ELSE "unresolved",
     pnl |-> Null]

(* positionChanged that looks at the shares only. *)
positionChanged_SharesOnly(prev, curr) ==
    \/ prev.yesShares # curr.yesShares
    \/ prev.noShares # curr.noShares

(* positionChanged that compares the two objects, not their fields. *)
positionChanged_ByReference(prev, curr) == TRUE

(* positionChanged that compares the outcome as well. *)
positionChanged_WithOutcome(prev, curr) ==
    \/ prev.yesShares # curr.yesShares
    \/ prev.noShares # curr.noShares
    \/ prev.yesAvgPrice # curr.yesAvgPrice
    \/ prev.noAvgPrice # curr.noAvgPrice
    \/ prev.resolvedOutcome # curr.resolvedOutcome

positionChanged(prev, curr) ==
    \/ prev.yesShares # curr.yesShares
    \/ prev.noShares # curr.noShares
    \/ prev.yesAvgPrice # curr.yesAvgPrice
    \/ prev.noAvgPrice # curr.noAvgPrice

OrZero(o) == IF IsNull(o) THEN 0 ELSE Get(o)

(* The result is the profit in units of 1/PriceScale. *)
calculatePnL(position, resolvedOutcome) ==
    IF resolvedOutcome = "unresolved" THEN 0
    ELSE IF resolvedOutcome = "yes" THEN
        LET yesPayout == position.yesShares * PriceScale
            yesCost == position.yesShares * OrZero(position.yesAvgPrice)
            yesPnL == yesPayout - yesCost
            noCost == position.noShares * OrZero(position.noAvgPrice)
            noPnL == 0 - noCost
        IN  yesPnL + noPnL
    ELSE IF resolvedOutcome = "no" THEN
        LET noPayout == position.noShares * PriceScale
            noCost == position.noShares * OrZero(position.noAvgPrice)
            noPnL == noPayout - noCost
            yesCost == position.yesShares * OrZero(position.yesAvgPrice)
            yesPnL == 0 - yesCost
        IN  yesPnL + noPnL
    ELSE 0

(* CurrEvents with the resolution reported before the update. *)
CurrEvents_ResolvedFirst(prevSnapshot, currSnapshot, currPos) ==
    LET prevPos == MapGet(prevSnapshot.positions, currPos.marketId)
    IN  IF IsNull(prevPos)
        THEN <<createEvent("POSITION_OPENED", currSnapshot.wallet,
                           currPos.marketId, currPos.marketTitle,
                           Null, Some(currPos))>>
        ELSE
            (IF Get(prevPos).resolvedOutcome = "unresolved"
                /\ currPos.resolvedOutcome # "unresolved"
             THEN <<[createEvent("MARKET_RESOLVED", currSnapshot.wallet,
                                 currPos.marketId, currPos.marketTitle,
                                 prevPos, Some(currPos))
                     EXCEPT !.pnl = Some(calculatePnL(currPos,
                                           currPos.resolvedOutcome))]>>
             ELSE <<>>)
            \o (IF positionChanged(Get(prevPos), currPos)
                THEN <<createEvent("POSITION_UPDATED", currSnapshot.wallet,
                                   currPos.marketId, currPos.marketTitle,
                                   prevPos, Some(currPos))>>
                ELSE <<>>)

(* Body of the loop over currSnapshot.positions. *)
CurrEvents(prevSnapshot, currSnapshot, currPos) ==
    LET prevPos == MapGet(prevSnapshot.positions, currPos.marketId)
    IN  IF IsNull(prevPos)
        THEN <<createEvent("POSITION_OPENED", currSnapshot.wallet,
                           currPos.marketId, currPos.marketTitle,
                           Null, Some(currPos))>>
        ELSE
            LET hasChanged == positionChanged(Get(prevPos), currPos)
                wasUnresolved == Get(prevPos).resolvedOutcome = "unresolved"
                isNowResolved == currPos.resolvedOutcome # "unresolved"
                updated ==
                    IF hasChanged
                    THEN <<createEvent("POSITION_UPDATED", currSnapshot.wallet,
                                       currPos.marketId, currPos.marketTitle,
                                       prevPos, Some(currPos))>>
                    ELSE <<>>
                resolved ==
                    IF wasUnresolved /\ isNowResolved
                    THEN <<[createEvent("MARKET_RESOLVED", currSnapshot.wallet,
                                        currPos.marketId, currPos.marketTitle,
                                        prevPos, Some(currPos))
                            EXCEPT !.pnl = Some(calculatePnL(currPos,
                                                  currPos.resolvedOutcome))]>>
                    ELSE <<>>
            IN  updated \o resolved

(* PrevEvents without the test for the market in the current snapshot. *)
PrevEvents_Always(prevSnapshot, currSnapshot, prevPos) ==
    <<createEvent("POSITION_CLOSED", currSnapshot.wallet,
                  prevPos.marketId, prevPos.marketTitle,
                  Some(prevPos), Null)>>

(* PrevEvents that reports a closed position only when no position is     *)
(* left.                                                                   *)
PrevEvents_OnlyWhenEmpty(prevSnapshot, currSnapshot, prevPos) ==
    IF Len(currSnapshot.positions) = 0
    THEN <<createEvent("POSITION_CLOSED", currSnapshot.wallet,
                       prevPos.marketId, prevPos.marketTitle,
                       Some(prevPos), Null)>>
    ELSE <<>>

(* Body of the loop over prevSnapshot.positions. *)
PrevEvents(prevSnapshot, currSnapshot, prevPos) ==
    LET currPos == MapGet(currSnapshot.positions, prevPos.marketId)
    IN  IF IsNull(currPos)
        THEN <<createEvent("POSITION_CLOSED", currSnapshot.wallet,
                           prevPos.marketId, prevPos.marketTitle,
                           Some(prevPos), Null)>>
        ELSE <<>>

(* The k-th event created takes the k-th identifier after uuid0. *)
AssignIds(evs, uuid0) ==
    [k \in 1..Len(evs) |-> [evs[k] EXCEPT !.eventId = uuid0 + k]]

(* computeDiff with the loop over the previous positions run first. *)
computeDiff_ClosedFirst(prevSnapshot, currSnapshot, uuid0) ==
    IF IsNull(prevSnapshot) THEN <<>>
    ELSE
        LET prev == Get(prevSnapshot)
            fromCurr == Flatten([i \in 1..Len(currSnapshot.positions) |->
                            CurrEvents(prev, currSnapshot,
                                       currSnapshot.positions[i])])
            fromPrev == Flatten([i \in 1..Len(prev.positions) |->
                            PrevEvents(prev, currSnapshot, prev.positions[i])])
        IN  AssignIds(fromPrev \o fromCurr, uuid0)

(* prevSnapshot is nullable; uuid0 is the state of the identifier source. *)
computeDiff(prevSnapshot, currSnapshot, uuid0) ==
    IF IsNull(prevSnapshot) THEN <<>>
    ELSE
        LET prev == Get(prevSnapshot)
            fromCurr == Flatten([i \in 1..Len(currSnapshot.positions) |->
                            CurrEvents(prev, currSnapshot,
                                       currSnapshot.positions[i])])
            fromPrev == Flatten([i \in 1..Len(prev.positions) |->
                            PrevEvents(prev, currSnapshot, prev.positions[i])])
        IN  AssignIds(fromCurr \o fromPrev, uuid0)

----------------------------------------------------------------------------
(* JavaScript numbers (IEEE 754 binary64), as far as calculatePnL uses     *)
(* them: products, sums and differences rounded to 53 significant bits,    *)
(* ties to even. A natural number is the sequence of its digits in base    *)
(* 2^15, lowest first, without leading zero; a number is sign * m * 2^e    *)
(* with m odd or zero.                                                     *)

DoublePrecision == 53
LimbBits == 15
Base == 2^LimbBits

RECURSIVE Limbs(_)
Limbs(n) == IF n = 0 THEN <<>> ELSE <<n % Base>> \o Limbs(n \div Base)

RECURSIVE BTrim(_)
BTrim(a) ==
    IF Len(a) = 0 THEN a
    ELSE IF a[Len(a)] = 0 THEN BTrim(SubSeq(a, 1, Len(a) - 1))
    ELSE a

LimbAt(a, i) == IF i <= Len(a) THEN a[i] ELSE 0

RECURSIVE BAddFrom(_, _, _, _)
BAddFrom(a, b, i, carry) ==
    IF i > Len(a) /\ i > Len(b)
    THEN (IF carry = 0 THEN <<>> ELSE <<carry>>)
    ELSE <<(LimbAt(a, i) + LimbAt(b, i) + carry) % Base>>
         \o BAddFrom(a, b, i + 1,
                     (LimbAt(a, i) + LimbAt(b, i) + carry) \div Base)

BAdd(a, b) == BTrim(BAddFrom(a, b, 1, 0))

(* a - b for a >= b *)
RECURSIVE BSubFrom(_, _, _, _)
BSubFrom(a, b, i, borrow) ==
    IF i > Len(a) THEN <<>>
    ELSE <<(LimbAt(a, i) - LimbAt(b, i) - borrow + Base) % Base>>
         \o BSubFrom(a, b, i + 1,
                     IF LimbAt(a, i) - LimbAt(b, i) - borrow < 0 THEN 1 ELSE 0)

BSub(a, b) == BTrim(BSubFrom(a, b, 1, 0))

(* a < b *)
RECURSIVE BLessFrom(_, _, _)
BLessFrom(a, b, i) ==
    IF i = 0 THEN FALSE
    ELSE IF a[i] # b[i] THEN a[i] < b[i]
    ELSE BLessFrom(a, b, i - 1)

BLess(a, b) ==
    IF Len(a) # Len(b) THEN Len(a) < Len(b) ELSE BLessFrom(a, b, Len(a))

(* a * n for a digit n *)
RECURSIVE BMulDigitFrom(_, _, _, _)
BMulDigitFrom(a, n, i, carry) ==
    IF i > Len(a) THEN (IF carry = 0 THEN <<>> ELSE <<carry>>)
    ELSE <<(a[i] * n + carry) % Base>>
         \o BMulDigitFrom(a, n, i + 1, (a[i] * n + carry) \div Base)

BMulDigit(a, n) == BTrim(BMulDigitFrom(a, n, 1, 0))

(* a * Base^k *)
BShiftLimbs(a, k) == IF Len(a) = 0 THEN a ELSE [i \in 1..k |-> 0] \o a

RECURSIVE BMul(_, _)
BMul(a, b) ==
    IF Len(a) = 0 \/ Len(b) = 0 THEN <<>>
    ELSE BAdd(BMulDigit(a, Head(b)), BShiftLimbs(BMul(a, Tail(b)), 1))

(* Quotient and remainder of a by a digit d, from the highest digit. *)
RECURSIVE BDivFrom(_, _, _, _, _)
BDivFrom(a, d, i, q, r) ==
    IF i = 0 THEN [q |-> BTrim(q), r |-> r]
    ELSE BDivFrom(a, d, i - 1,
                  <<(r * Base + a[i]) \div d>> \o q,
                  (r * Base + a[i]) % d)

BDiv(a, d) == BDivFrom(a, d, Len(a), <<>>, 0)

(* a * 2^k and the whole part of a / 2^k *)
BShl(a, k) == BShiftLimbs(BMulDigit(a, 2^(k % LimbBits)), k \div LimbBits)

BShr(a, k) ==
    IF k \div LimbBits >= Len(a) THEN <<>>
    ELSE BDiv(SubSeq(a, (k \div LimbBits) + 1, Len(a)), 2^(k % LimbBits)).q

(* The number of bits of a. *)
BitLength(a) ==
    IF Len(a) = 0 THEN 0
    ELSE (Len(a) - 1) * LimbBits
         + (CHOOSE k \in 1..LimbBits :
                2^(k - 1) <= a[Len(a)] /\ a[Len(a)] < 2^k)

(* The number of zero bits at the low end of a, a # 0. *)
TrailingZeros(a) ==
    LET i == CHOOSE j \in 1..Len(a) :
                 a[j] # 0 /\ \A l \in 1..(j - 1) : a[l] = 0
    IN  (i - 1) * LimbBits
        + (CHOOSE k \in 0..(LimbBits - 1) :
               a[i] % 2^k = 0 /\ a[i] % 2^(k + 1) # 0)

Number(sign, m, e) == [sign |-> sign, m |-> m, e |-> e]

Zero == Number(1, <<>>, 0)

(* The same value with m odd. *)
Normalize(x) ==
    IF Len(x.m) = 0 THEN Zero
    ELSE Number(x.sign, BShr(x.m, TrailingZeros(x.m)),
                x.e + TrailingZeros(x.m))

(* The nearest number with at most 53 significant bits, ties to even. *)
RoundToDouble(x) ==
    IF BitLength(x.m) <= DoublePrecision THEN Normalize(x)
    ELSE LET k == BitLength(x.m) - DoublePrecision
             kept == BShr(x.m, k)
             dropped == BSub(x.m, BShl(kept, k))
             half == BShl(<<1>>, k - 1)
             up == \/ BLess(half, dropped)
                   \/ dropped = half /\ kept[1] % 2 = 1
         IN  Normalize(Number(x.sign,
                              IF up THEN BAdd(kept, <<1>>) ELSE kept,
                              x.e + k))

(* x * y *)
NumberTimes(x, y) ==
    RoundToDouble(Number(x.sign * y.sign, BMul(x.m, y.m), x.e + y.e))

(* x + y *)
NumberPlus(x, y) ==
    LET e == IF x.e < y.e THEN x.e ELSE y.e
        a == BShl(x.m, x.e - e)
        b == BShl(y.m, y.e - e)
    IN  IF x.sign = y.sign
        THEN RoundToDouble(Number(x.sign, BAdd(a, b), e))
        ELSE IF BLess(a, b)
        THEN RoundToDouble(Number(y.sign, BSub(b, a), e))
        ELSE RoundToDouble(Number(x.sign, BSub(a, b), e))

(* x - y *)
NumberMinus(x, y) == NumberPlus(x, Number(0 - y.sign, y.m, y.e))

(* The number a whole share count is. *)
NumberOfInt(n) ==
    IF n < 0 THEN RoundToDouble(Number(0 - 1, Limbs(0 - n), 0))
    ELSE RoundToDouble(Number(1, Limbs(n), 0))

(* The number that the decimal n / PriceScale denotes, as JSON.parse and   *)
(* a numeric literal yield it: the quotient is taken to 64 binary places   *)
(* and a last bit tells whether anything is left.                          *)
NumberOfDecimal(n) ==
    LET abs == IF n < 0 THEN 0 - n ELSE n
        d == BDiv(BShl(Limbs(abs), 64), PriceScale)
        sticky == IF d.r > 0 THEN <<1>> ELSE <<>>
    IN  IF n = 0 THEN Zero
        ELSE RoundToDouble(Number(IF n < 0 THEN 0 - 1 ELSE 1,
                                  BAdd(BShl(d.q, 1), sticky), 0 - 65))

(* position.yesAvgPrice ?? 0 *)
PriceOrZero(o) == IF IsNull(o) THEN Zero ELSE NumberOfDecimal(Get(o))

(* calculatePnL on numbers: shares are whole, prices are given in units    *)
(* of 1 / PriceScale.                                                      *)
calculatePnLNumber(position, resolvedOutcome) ==
    IF resolvedOutcome = "unresolved" THEN Zero
    ELSE IF resolvedOutcome = "yes" THEN
        LET yesPayout == NumberTimes(NumberOfInt(position.yesShares),
                                     NumberOfInt(1))
            yesCost == NumberTimes(NumberOfInt(position.yesShares),
                                   PriceOrZero(position.yesAvgPrice))
            yesPnL == NumberMinus(yesPayout, yesCost)
            noCost == NumberTimes(NumberOfInt(position.noShares),
                                  PriceOrZero(position.noAvgPrice))
            noPnL == NumberMinus(Zero, noCost)
        IN  NumberPlus(yesPnL, noPnL)
    ELSE IF resolvedOutcome = "no" THEN
        LET noPayout == NumberTimes(NumberOfInt(position.noShares),
                                    NumberOfInt(1))
            noCost == NumberTimes(NumberOfInt(position.noShares),
                                  PriceOrZero(position.noAvgPrice))
            noPnL == NumberMinus(noPayout, noCost)
            yesCost == NumberTimes(NumberOfInt(position.yesShares),
                                   PriceOrZero(position.yesAvgPrice))
            yesPnL == NumberMinus(Zero, yesCost)
        IN  NumberPlus(yesPnL, noPnL)
    ELSE Zero

----------------------------------------------------------------------------
(* Errors *)

(* context is the wallet that the message of a wrapped error names, null   *)
(* on every other error.                                                   *)
NoError == [name |-> "", message |-> "", context |-> Null, causeName |-> ""]
Err(name, message) ==
    [name |-> name, message |-> message, context |-> Null, causeName |-> ""]

(* The catch block of saveSnapshotWithEvents applied to an error raised by *)
(* the driver; kind is the substring of the driver's message that the      *)
(* block tests for.                                                        *)
MapDriverError(kind) ==
    IF kind = "readonly"
    THEN Err("DatabaseConnectionError", "Database is read-only")
    ELSE IF kind = "locked"
    THEN Err("DatabaseConnectionError", "Database is locked")
    ELSE IF kind = "constraint"
    THEN Err("DatabaseConstraintError",
             "Database constraint violation during transaction")
    ELSE IF kind = "transaction"
    THEN Err("DatabaseTransactionError", "Transaction failed and was rolled back")
    ELSE Err("DatabaseError", "Failed to save snapshot with events")

(* The catch block of saveFirstSnapshot. *)
saveFirstSnapshotError(kind) ==
    IF kind = "readonly"
    THEN Err("DatabaseConnectionError", "Database is read-only")
    ELSE IF kind = "locked"
    THEN Err("DatabaseConnectionError", "Database is locked")
    ELSE IF kind = "constraint"
    THEN Err("DatabaseConstraintError", "Database constraint violation")
    ELSE Err("DatabaseError", "Failed to save first snapshot")

(* The catch block of getLatest. *)
getLatestError(kind) ==
    IF kind = "locked"
    THEN Err("DatabaseConnectionError", "Database is locked")
    ELSE Err("DatabaseError", "Failed to get latest snapshot")

(* What the driver does during one takeSnapshot call: nothing, or it       *)
(* raises an error in one repository operation; kind is the substring of   *)
(* its message that the catch blocks test for. "locked" is raised by the   *)
(* first statement of the operation, "constraint" by the INSERT into       *)
(* snapshots; neither leaves a row behind.                                 *)
NoFault == [op |-> "", kind |-> ""]
DbFaults ==
    {NoFault,
     [op |-> "getLatest", kind |-> "locked"],
     [op |-> "saveFirstSnapshot", kind |-> "locked"],
     [op |-> "saveSnapshotWithEvents", kind |-> "locked"],
     [op |-> "saveSnapshotWithEvents", kind |-> "constraint"]}

----------------------------------------------------------------------------
(* Tables (src/src/db/schema.ts) and SnapshotRepository                    *)

(* snapshots.id is AUTOINCREMENT and no row is ever deleted, so the next   *)
(* id is the number of rows plus one.                                      *)
SnapshotRow(S, snapshot, prevSnapshotId) ==
    [id |-> Len(S) + 1,
     wallet |-> snapshot.wallet,
     snapshotData |-> snapshot,
     timestamp |-> snapshot.timestamp,
     prevSnapshotId |-> prevSnapshotId]

EventRow(event, snapshotId) ==
    [id |-> event.eventId,
     wallet |-> event.wallet,
     eventType |-> event.eventType,
     marketId |-> event.marketId,
     marketTitle |-> event.marketTitle,
     snapshotId |-> snapshotId,
     prevYesShares |-> event.prevYesShares,
     prevNoShares |-> event.prevNoShares,
     prevYesAvgPrice |-> event.prevYesAvgPrice,
     prevNoAvgPrice |-> event.prevNoAvgPrice,
     currYesShares |-> event.currYesShares,
     currNoShares |-> event.currNoShares,
     currYesAvgPrice |-> event.currYesAvgPrice,
     currNoAvgPrice |-> event.currNoAvgPrice,
     resolvedOutcome |-> event.resolvedOutcome,
     pnl |-> event.pnl]

WalletRows(S, wallet) == {i \in 1..Len(S) : S[i].wallet = wallet}

(* LatestIds with the WHERE wallet = ? clause left out. *)
LatestIds_AnyWallet(S, wallet) ==
    {i \in 1..Len(S) : \A j \in 1..Len(S) : S[j].timestamp <= S[i].timestamp}

(* WHERE wallet = ? ORDER BY timestamp DESC LIMIT 1: the rows the query    *)
(* may return. Among rows with the same greatest timestamp SQL leaves the  *)
(* choice to the engine.                                                   *)
LatestIds(S, wallet) ==
    {i \in WalletRows(S, wallet) :
        \A j \in WalletRows(S, wallet) : S[j].timestamp <= S[i].timestamp}

(* The choices passed to the operations below as "pick". *)
Picks(S, wallet) ==
    IF LatestIds(S, wallet) = {} THEN {0} ELSE LatestIds(S, wallet)

Outcome(S, E, ok, id, error) ==
    [snapshots |-> S, events |-> E, ok |-> ok, id |-> id, error |-> error]

(* saveFirstSnapshot without the check for an existing snapshot. *)
saveFirstSnapshot_Unchecked(S, E, snapshot) ==
    Outcome(Append(S, SnapshotRow(S, snapshot, Null)), E,
            TRUE, Len(S) + 1, NoError)

saveFirstSnapshot(S, E, snapshot) ==
    LET existing == WalletRows(S, snapshot.wallet)
    IN  IF existing # {}
        THEN Outcome(S, E, FALSE, 0,
                     Err("DatabaseConstraintError", "already has snapshots"))
        ELSE Outcome(Append(S, SnapshotRow(S, snapshot, Null)), E,
                     TRUE, Len(S) + 1, NoError)

(* events.id is the primary key: the multi-row INSERT fails as a whole     *)
(* when one of its ids is already stored or occurs twice in the statement. *)
EventInsertFails(E, diffEvents) ==
    \/ \E k \in 1..Len(diffEvents) : \E r \in 1..Len(E) :
            E[r].id = diffEvents[k].eventId
    \/ \E k, l \in 1..Len(diffEvents) :
            k # l /\ diffEvents[k].eventId = diffEvents[l].eventId

(* The part of saveSnapshotWithEvents after its two precondition checks:   *)
(* the snapshot INSERT and the events INSERT are separate statements on    *)
(* this.db, each committed on its own, so a failure of the second leaves   *)
(* the row the first one wrote.                                            *)
InsertSnapshotWithEvents(S, E, snapshot, diffEvents, prevSnapshotId) ==
    LET S1 == Append(S, SnapshotRow(S, snapshot, prevSnapshotId))
        snapshotId == Len(S) + 1
    IN  IF EventInsertFails(E, diffEvents)
        THEN Outcome(S1, E, FALSE, 0, MapDriverError("constraint"))
        ELSE Outcome(S1,
                     E \o [k \in 1..Len(diffEvents) |->
                              EventRow(diffEvents[k], snapshotId)],
                     TRUE, snapshotId, NoError)

(* saveSnapshotWithEvents without the check for a previous snapshot. *)
saveSnapshotWithEvents_NoPreviousCheck(S, E, snapshot, diffEvents, pick) ==
    IF Len(diffEvents) = 0
    THEN Outcome(S, E, FALSE, 0, Err("Error", "at least one event is required"))
    ELSE InsertSnapshotWithEvents(S, E, snapshot, diffEvents,
            IF LatestIds(S, snapshot.wallet) = {} THEN Null
            ELSE Some(S[pick].id))

(* saveSnapshotWithEvents without the check for an empty event list. *)
saveSnapshotWithEvents_NoEmptyCheck(S, E, snapshot, diffEvents, pick) ==
    IF LatestIds(S, snapshot.wallet) = {}
    THEN Outcome(S, E, FALSE, 0, Err("Error", "no previous snapshot exists"))
    ELSE InsertSnapshotWithEvents(S, E, snapshot, diffEvents, Some(S[pick].id))

(* pick is the row the "previous" query returns when there is one. *)
saveSnapshotWithEvents(S, E, snapshot, diffEvents, pick) ==
    IF Len(diffEvents) = 0
    THEN Outcome(S, E, FALSE, 0, Err("Error", "at least one event is required"))
    ELSE IF LatestIds(S, snapshot.wallet) = {}
    THEN Outcome(S, E, FALSE, 0, Err("Error", "no previous snapshot exists"))
    ELSE InsertSnapshotWithEvents(S, E, snapshot, diffEvents, Some(S[pick].id))

(* saveSnapshotWithEvents when the driver raises an error of this kind:    *)
(* the check of the event list comes before every statement, the check of  *)
(* the previous snapshot before the INSERT into snapshots.                 *)
saveSnapshotWithEventsFailing(S, E, snapshot, diffEvents, pick, kind) ==
    IF Len(diffEvents) = 0
    THEN saveSnapshotWithEvents(S, E, snapshot, diffEvents, pick)
    ELSE IF kind # "locked" /\ LatestIds(S, snapshot.wallet) = {}
    THEN saveSnapshotWithEvents(S, E, snapshot, diffEvents, pick)
    ELSE Outcome(S, E, FALSE, 0, MapDriverError(kind))

(* pick is the row the query returns when there is one. *)
getLatest(S, wallet, pick) ==
    IF LatestIds(S, wallet) = {} THEN Null
    ELSE Some([id |-> S[pick].id, snapshot |-> S[pick].snapshotData])

----------------------------------------------------------------------------
(* validateWalletAddress (src/src/validation/validators.ts)                *)

(* address.trim() and replace(/\s+/g, "") *)
Sanitize(address) == SelectSeq(address, LAMBDA c : c \notin Whitespace)

(* walletAddressSchema: /^0x[a-fA-F0-9]{40}$/, with the forty digits as    *)
(* one token.                                                              *)
MatchesAddressPattern(s) ==
    /\ Len(s) = Len(<<"0x", "digits">>)
    /\ s[1] = "0x"
    /\ s[Len(s)] \in HexDigits

(* validateWalletAddress without the schema. *)
validateWalletAddress_NoSchema(address) ==
    LET sanitized == Sanitize(address)
    IN  IF Len(sanitized) = 0
        THEN [ok |-> FALSE, wallet |-> sanitized,
              error |-> Err("ValidationError", "cannot be empty")]
        ELSE [ok |-> TRUE, wallet |-> sanitized, error |-> NoError]

validateWalletAddress(address) ==
    LET sanitized == Sanitize(address)
    IN  IF Len(sanitized) = 0
        THEN [ok |-> FALSE, wallet |-> sanitized,
              error |-> Err("ValidationError", "cannot be empty")]
        ELSE IF ~MatchesAddressPattern(sanitized)
        THEN [ok |-> FALSE, wallet |-> sanitized,
              error |-> Err("ValidationError", "Invalid wallet address")]
        ELSE [ok |-> TRUE, wallet |-> sanitized, error |-> NoError]

----------------------------------------------------------------------------
(* SnapshotService.takeSnapshot (src/src/services/snapshot-service.ts)     *)

KnownErrorNames ==
    {"ValidationError", "PolymarketAPIError", "NetworkError", "ClientError",
     "ServerError", "RateLimitError"}

(* WrapServiceError with the message of the cause left out. *)
WrapServiceError_NoMessage(e, wallet) ==
    IF e.name \in KnownErrorNames THEN e
    ELSE [name |-> "Error", message |-> "Failed to take snapshot",
          context |-> Some(wallet), causeName |-> e.name]

(* The catch block of takeSnapshot: the new Error's message is "Failed to  *)
(* take snapshot for wallet <wallet>: <message of the cause>", wallet      *)
(* being the argument of takeSnapshot as given.                            *)
WrapServiceError(e, wallet) ==
    IF e.name \in KnownErrorNames THEN e
    ELSE [name |-> "Error", message |-> e.message, context |-> Some(wallet),
          causeName |-> e.name]

(* WalletEvent with the id of the previous snapshot attached. *)
WalletEvent_PreviousId(event, snapshotId) ==
    [f \in DOMAIN event \cup {"snapshotId"} |->
        IF f = "snapshotId" THEN snapshotId - 1 ELSE event[f]]

WalletEvent(event, snapshotId) ==
    [f \in DOMAIN event \cup {"snapshotId"} |->
        IF f = "snapshotId" THEN snapshotId ELSE event[f]]

Call(fn, snapshot, evs) == [fn |-> fn, snapshot |-> snapshot, events |-> evs]

(* SnapshotResult that never reports a first snapshot. *)
SnapshotResult_NeverFirst(snapshot, evs, isFirstSnapshot, saved) ==
    [snapshot |-> snapshot, events |-> evs,
     isFirstSnapshot |-> FALSE, saved |-> saved]

SnapshotResult(snapshot, evs, isFirstSnapshot, saved) ==
    [snapshot |-> snapshot, events |-> evs,
     isFirstSnapshot |-> isFirstSnapshot, saved |-> saved]

(* thrown is the error as the validator or the collaborator raised it, db  *)
(* the driver error that caused it, if one did.                            *)
ServiceOutcome(w, S, E, uuid, ok, error, result, calls, current, prev, diff, thrown, db) ==
    [wallet |-> w, snapshots |-> S, events |-> E, uuidCounter |-> uuid, ok |-> ok,
     error |-> error, result |-> result, calls |-> calls,
     current |-> current, prev |-> prev, diffEvents |-> diff,
     thrown |-> thrown, db |-> db]

(* SaveDecision without the branch that skips the save. *)
SaveDecision_AlwaysSave(prevSnapshot, diffEvents) ==
    IF IsNull(prevSnapshot) THEN "first" ELSE "append"

(* Step 5 of takeSnapshot: which write, if any, the call makes. *)
SaveDecision(prevSnapshot, diffEvents) ==
    IF IsNull(prevSnapshot) THEN "first"
    ELSE IF Len(diffEvents) = 0 THEN "skip"
    ELSE "append"

(* api is what this.api.getWalletPositions does on this call, db what the  *)
(* driver does; pick is the row the ORDER BY timestamp query returns:      *)
(* getLatest and the "previous" query of saveSnapshotWithEvents are the    *)
(* same query over the same rows, so within one call the engine answers    *)
(* both with the same row. uuid0 counts the identifiers randomUUID has     *)
(* given to events that exist, stored or returned: the identifiers of a    *)
(* call that failed are gone with it.                                      *)
takeSnapshot(S, E, uuid0, wallet, api, db, pick) ==
    LET v == validateWalletAddress(wallet)
        validWallet == v.wallet
        callApi == <<Call("getWalletPositions", Null, <<>>)>>
        apiError == Err(api.error, "api")
        currentSnapshot == Snapshot(validWallet, api.timestamp, api.positions)
        prevSnapshotData == getLatest(S, validWallet, pick)
        prevSnapshot ==
            IF IsNull(prevSnapshotData) THEN Null
            ELSE Some(Get(prevSnapshotData).snapshot)
        callLatest == callApi \o <<Call("getLatest", Null, <<>>)>>
        diffEvents == computeDiff(prevSnapshot, currentSnapshot, uuid0)
        uuid1 == uuid0 + Len(diffEvents)
        first ==
            IF db.op = "saveFirstSnapshot"
            THEN Outcome(S, E, FALSE, 0, saveFirstSnapshotError(db.kind))
            ELSE saveFirstSnapshot(S, E, currentSnapshot)
        callFirst == callLatest \o
            <<Call("saveFirstSnapshot", Some(currentSnapshot), <<>>)>>
        saved ==
            IF db.op = "saveSnapshotWithEvents"
            THEN saveSnapshotWithEventsFailing(S, E, currentSnapshot,
                                               diffEvents, pick, db.kind)
            ELSE saveSnapshotWithEvents(S, E, currentSnapshot, diffEvents,
                                        pick)
        callSave == callLatest \o
            <<Call("saveSnapshotWithEvents", Some(currentSnapshot), diffEvents)>>
        decision == SaveDecision(prevSnapshot, diffEvents)
    IN  IF ~v.ok
        THEN ServiceOutcome(wallet, S, E, uuid0, FALSE,
                            WrapServiceError(v.error, wallet),
                            Null, <<>>, Null, Null, <<>>, v.error, NoFault)
        ELSE IF api.error # ""
        THEN ServiceOutcome(validWallet, S, E, uuid0, FALSE,
                            WrapServiceError(apiError, wallet),
                            Null, callApi, Null, Null, <<>>, apiError,
                            NoFault)
        ELSE IF db.op = "getLatest"
        THEN ServiceOutcome(validWallet, S, E, uuid0, FALSE,
                            WrapServiceError(getLatestError(db.kind), wallet),
                            Null, callLatest, Some(currentSnapshot), Null,
                            <<>>, getLatestError(db.kind), db)
        ELSE IF decision = "first"
        THEN IF first.ok
             THEN ServiceOutcome(validWallet, first.snapshots, first.events, uuid1, TRUE,
                    NoError,
                    Some(SnapshotResult(currentSnapshot, <<>>, TRUE, TRUE)),
                    callFirst, Some(currentSnapshot), prevSnapshotData,
                    diffEvents, NoError, NoFault)
             ELSE ServiceOutcome(validWallet, first.snapshots, first.events, uuid0, FALSE,
                    WrapServiceError(first.error, wallet), Null, callFirst,
                    Some(currentSnapshot), prevSnapshotData, diffEvents,
                    first.error,
                    IF db.op = "saveFirstSnapshot" THEN db ELSE NoFault)
        ELSE IF decision = "skip"
        THEN ServiceOutcome(validWallet, S, E, uuid1, TRUE, NoError,
                Some(SnapshotResult(currentSnapshot, <<>>, FALSE, FALSE)),
                callLatest, Some(currentSnapshot), prevSnapshotData,
                diffEvents, NoError, NoFault)
        ELSE IF saved.ok
        THEN ServiceOutcome(validWallet, saved.snapshots, saved.events, uuid1, TRUE, NoError,
                Some(SnapshotResult(currentSnapshot,
                        [k \in 1..Len(diffEvents) |->
                            WalletEvent(diffEvents[k], saved.id)],
                        FALSE, TRUE)),
                callSave, Some(currentSnapshot), prevSnapshotData, diffEvents,
                NoError, NoFault)
        ELSE ServiceOutcome(validWallet, saved.snapshots, saved.events, uuid0, FALSE,
                WrapServiceError(saved.error, wallet), Null, callSave,
                Some(currentSnapshot), prevSnapshotData, diffEvents,
                saved.error,
                IF db.op = "saveSnapshotWithEvents" THEN db ELSE NoFault)

----------------------------------------------------------------------------
(* Calls under way *)

Procs == {"p1", "p2"}

(* A call is between two of its awaits: pc names the statement it runs    *)
(* next, the other fields are its local variables.                         *)
Idle == [pc |-> "idle"]

Local(pc, wallet, current, prev, diffEvents, seen, prevSnapshotId, snapshotId, outcome) ==
    [pc |-> pc, wallet |-> wallet, currentSnapshot |-> current,
     prevSnapshotData |-> prev, diffEvents |-> diffEvents, seen |-> seen,
     prevSnapshotId |-> prevSnapshotId, snapshotId |-> snapshotId,
     outcome |-> outcome]

(* The positions the provider answers concurrent calls with. *)
ConcurrentPositions ==
    {<<Position("m1", 1, 0, Some(50), Null, "unresolved")>>,
     <<Position("m1", 2, 0, Some(50), Null, "unresolved")>>}

----------------------------------------------------------------------------
(* Retry with exponential backoff (api/retry.ts) *)

DEFAULT_RETRY_CONFIG ==
    [maxRetries |-> 3, initialDelayMs |-> 1000, exponentialFactor |-> 2]

(* What one call of fn does: it returns, or it throws an error of the     *)
(* named class. The API error classes all extend PolymarketAPIError        *)
(* directly, so instanceof is equality of the class.                       *)
FnOutcomes ==
    {"ok", "NetworkError", "ServerError", "RateLimitError", "ClientError"}

RetryConfigs ==
    {[DEFAULT_RETRY_CONFIG EXCEPT !.maxRetries = n] : n \in 0..MaxRetries}

(* fn[i] is the outcome of the i-th call of fn. *)
RetryInputs ==
    {[fn |-> fn, config |-> config] :
        fn \in [1..(MaxRetries + 1) -> FnOutcomes], config \in RetryConfigs}

(* shouldRetry that retries whatever the error. *)
shouldRetry_Always(error) == TRUE

shouldRetry(error) ==
    IF error = "NetworkError" THEN TRUE
    ELSE IF error = "ServerError" THEN TRUE
    ELSE IF error = "RateLimitError" THEN TRUE
    ELSE FALSE

RetryOutcome(returned, value, error, calls, delays) ==
    [returned |-> returned, value |-> value, error |-> error, calls |-> calls,
     delays |-> delays]

RECURSIVE withRetryFrom(_, _, _, _, _)
(* The loop of withRetry from the given attempt on. The value the i-th    *)
(* call of fn returns is i.                                                *)
withRetryFrom(fn, config, attempt, lastError, delays) ==
    IF ~(attempt <= config.maxRetries)
    THEN RetryOutcome(FALSE, 0, lastError, attempt, delays)
    ELSE IF fn[attempt + 1] = "ok"
    THEN RetryOutcome(TRUE, attempt + 1, "", attempt + 1, delays)
    ELSE IF attempt = config.maxRetries
    THEN RetryOutcome(FALSE, 0, fn[attempt + 1], attempt + 1, delays)
    ELSE IF ~shouldRetry(fn[attempt + 1])
    THEN RetryOutcome(FALSE, 0, fn[attempt + 1], attempt + 1, delays)
    ELSE withRetryFrom(fn, config, attempt + 1, fn[attempt + 1],
            Append(delays, config.initialDelayMs
                           * config.exponentialFactor ^ attempt))

withRetry(fn, config) == withRetryFrom(fn, config, 0, "", <<>>)

----------------------------------------------------------------------------
(* The Polymarket client (api/polymarket-client.ts, api/transformer.ts) *)

ApiPosition(conditionId, outcome, size, avgPrice, redeemable) ==
    [conditionId |-> conditionId, title |-> "T", outcome |-> outcome,
     size |-> size, avgPrice |-> avgPrice, redeemable |-> redeemable]

(* GET /positions of the Data API for the wallet: its tokens of market m1, *)
(* the YES tokens it trades and one NO token, redeemable once the market   *)
(* has resolved.                                                           *)
fetchPositions(market) ==
    <<ApiPosition("m1", "Yes", market.shares, Some(50),
                  market.outcome # "unresolved"),
      ApiPosition("m1", "No", 1, Some(0 - 1),
                  market.outcome # "unresolved")>>

toUpperCase(str) ==
    IF str \in {"Yes", "yes", "YES"} THEN "YES"
    ELSE IF str \in {"No", "no", "NO"} THEN "NO"
    ELSE str

Max0(n) == IF n < 0 THEN 0 ELSE n

(* One turn of the loop of transformToSnapshot: positionsByMarket is the   *)
(* Map in insertion order.                                                 *)
transformStep(positionsByMarket, apiPos) ==
    LET found == {i \in 1..Len(positionsByMarket) :
                    positionsByMarket[i].marketId = apiPos.conditionId}
        created ==
            IF found = {}
            THEN Append(positionsByMarket,
                        [marketId |-> apiPos.conditionId,
                         marketTitle |-> apiPos.title,
                         yesShares |-> 0, noShares |-> 0,
                         yesAvgPrice |-> Null, noAvgPrice |-> Null,
                         resolvedOutcome |-> "unresolved"])
            ELSE positionsByMarket
        i == IF found = {} THEN Len(created) ELSE CHOOSE j \in found : TRUE
        price == IF ~IsNull(apiPos.avgPrice)
                 THEN Some(Max0(Get(apiPos.avgPrice))) ELSE Null
        isYesPosition == toUpperCase(apiPos.outcome) = "YES"
    IN  IF isYesPosition
        THEN [created EXCEPT ![i].yesShares = apiPos.size,
                             ![i].yesAvgPrice = price]
        ELSE [created EXCEPT ![i].noShares = apiPos.size,
                             ![i].noAvgPrice = price]

RECURSIVE transformFrom(_, _, _)
transformFrom(apiPositions, k, positionsByMarket) ==
    IF k > Len(apiPositions) THEN positionsByMarket
    ELSE transformFrom(apiPositions, k + 1,
                       transformStep(positionsByMarket, apiPositions[k]))

(* now is what new Date() gives when the snapshot is built. *)
transformToSnapshot(wallet, apiPositions, now) ==
    Snapshot(wallet, now, transformFrom(apiPositions, 1, <<>>))

positionSchemaAccepts(position) ==
    /\ position.yesShares >= 0
    /\ position.noShares >= 0
    /\ IsNull(position.yesAvgPrice)
         \/ (Get(position.yesAvgPrice) >= 0
             /\ Get(position.yesAvgPrice) <= PriceScale)
    /\ IsNull(position.noAvgPrice)
         \/ (Get(position.noAvgPrice) >= 0
             /\ Get(position.noAvgPrice) <= PriceScale)
    /\ position.resolvedOutcome \in MarketOutcomes

snapshotSchemaAccepts(snapshot) ==
    /\ MatchesAddressPattern(snapshot.wallet)
    /\ \A i \in 1..Len(snapshot.positions) :
          positionSchemaAccepts(snapshot.positions[i])

(* What the requests of one call do: fn[i] is the outcome of the i-th      *)
(* request.                                                                *)
FetchScripts ==
    {[i \in 1..(DEFAULT_RETRY_CONFIG.maxRetries + 1) |-> "ok"],
     [i \in 1..(DEFAULT_RETRY_CONFIG.maxRetries + 1) |->
        IF i = 1 THEN "NetworkError" ELSE "ok"],
     [i \in 1..(DEFAULT_RETRY_CONFIG.maxRetries + 1) |-> "ServerError"]}

(* PolymarketAPI.getWalletPositions: the snapshot, or the error thrown. *)
getWalletPositions(address, response, fn, now) ==
    LET fetched == withRetry(fn, DEFAULT_RETRY_CONFIG)
        snapshot == transformToSnapshot(address, response, now)
    IN  IF ~MatchesAddressPattern(address)
        THEN [error |-> "ValidationError", timestamp |-> 1, positions |-> <<>>]
        ELSE IF ~fetched.returned
        THEN [error |-> fetched.error, timestamp |-> 1, positions |-> <<>>]
        ELSE IF ~snapshotSchemaAccepts(snapshot)
        THEN [error |-> "ValidationError", timestamp |-> 1, positions |-> <<>>]
        ELSE [error |-> "", timestamp |-> snapshot.timestamp,
              positions |-> snapshot.positions]

----------------------------------------------------------------------------
(* takeSnapshot statement by statement: between two awaits a call runs    *)
(* alone, at an await another call may run. Each step gives the call's    *)
(* local variables, the tables and the count of identifiers after it.      *)

StepResult(local, S, E, uuid) ==
    [local |-> local, snapshots |-> S, events |-> E, uuidCounter |-> uuid]

Returned(local, result) ==
    [local EXCEPT !.pc = "done",
                  !.outcome = Some([ok |-> TRUE, error |-> NoError,
                                    result |-> Some(result)])]

Threw(local, error) ==
    [local EXCEPT !.pc = "done",
                  !.outcome = Some([ok |-> FALSE,
                                    error |-> WrapServiceError(error, local.wallet),
                                    result |-> Null])]

(* Steps 1 and 2 of takeSnapshot: the wallet is valid and the provider     *)
(* has answered.                                                           *)
beginStep(wallet, api) ==
    Local("getLatest", wallet, Snapshot(wallet, api.timestamp, api.positions),
          Null, <<>>, [rows |-> {}, pick |-> 0], Null, 0, Null)

(* Steps 3 to 5: getLatest, computeDiff and the choice of the write. *)
readLatestStep(local, S, E, uuid0, pick) ==
    LET prevSnapshotData == getLatest(S, local.wallet, pick)
        prevSnapshot ==
            IF IsNull(prevSnapshotData) THEN Null
            ELSE Some(Get(prevSnapshotData).snapshot)
        diffEvents == computeDiff(prevSnapshot, local.currentSnapshot, uuid0)
        decision == SaveDecision(prevSnapshot, diffEvents)
        read == [local EXCEPT
                    !.prevSnapshotData = prevSnapshotData,
                    !.diffEvents = diffEvents,
                    !.seen = [rows |-> WalletRows(S, local.wallet),
                              pick |-> pick]]
    IN  StepResult(
            IF decision = "first" THEN [read EXCEPT !.pc = "selectExisting"]
            ELSE IF decision = "skip"
            THEN Returned(read, SnapshotResult(local.currentSnapshot, <<>>,
                                               FALSE, FALSE))
            ELSE [read EXCEPT !.pc = "selectPrevious"],
            S, E, uuid0 + Len(diffEvents))

(* saveFirstSnapshot: the SELECT for an existing snapshot of the wallet. *)
selectExistingStep(local, S, E, uuid) ==
    StepResult(
        IF WalletRows(S, local.wallet) # {}
        THEN Threw(local, saveFirstSnapshot(S, E, local.currentSnapshot).error)
        ELSE [local EXCEPT !.pc = "insertFirst"],
        S, E, uuid)

(* saveFirstSnapshot: the INSERT, and the return of takeSnapshot. *)
insertFirstStep(local, S, E, uuid) ==
    StepResult(
        Returned([local EXCEPT !.snapshotId = Len(S) + 1],
                 SnapshotResult(local.currentSnapshot, <<>>, TRUE, TRUE)),
        Append(S, SnapshotRow(S, local.currentSnapshot, Null)), E, uuid)

(* The rows the "previous" query of saveSnapshotWithEvents may return: it  *)
(* is the query of getLatest, so over the same rows of the wallet it       *)
(* returns the row getLatest returned.                                     *)
PreviousPicks(local, S) ==
    IF WalletRows(S, local.wallet) = local.seen.rows
    THEN {local.seen.pick}
    ELSE Picks(S, local.wallet)

(* saveSnapshotWithEvents: the SELECT of the previous snapshot. *)
selectPreviousStep(local, S, E, uuid, pick) ==
    StepResult(
        IF LatestIds(S, local.wallet) = {}
        THEN Threw(local, saveSnapshotWithEvents(S, E, local.currentSnapshot,
                                                 local.diffEvents, pick).error)
        ELSE [local EXCEPT !.pc = "insertSnapshot",
                           !.prevSnapshotId = Some(S[pick].id)],
        S, E, uuid)

(* saveSnapshotWithEvents: the INSERT into snapshots. *)
insertSnapshotStep(local, S, E, uuid) ==
    StepResult(
        [local EXCEPT !.pc = "insertEvents", !.snapshotId = Len(S) + 1],
        Append(S, SnapshotRow(S, local.currentSnapshot, local.prevSnapshotId)),
        E, uuid)

(* saveSnapshotWithEvents: the INSERT into events, and the return of       *)
(* takeSnapshot.                                                           *)
insertEventsStep(local, S, E, uuid) ==
    IF EventInsertFails(E, local.diffEvents)
    THEN StepResult(Threw(local, MapDriverError("constraint")), S, E, uuid)
    ELSE StepResult(
            Returned(local,
                SnapshotResult(local.currentSnapshot,
                    [k \in 1..Len(local.diffEvents) |->
                        WalletEvent(local.diffEvents[k], local.snapshotId)],
                    FALSE, TRUE)),
            S,
            E \o [k \in 1..Len(local.diffEvents) |->
                    EventRow(local.diffEvents[k], local.snapshotId)],
            uuid)

(* What the next statement of a call may do. *)
StepOutcomes(local, S, E, uuid) ==
    IF local.pc = "getLatest"
    THEN {readLatestStep(local, S, E, uuid, pick) :
            pick \in Picks(S, local.wallet)}
    ELSE IF local.pc = "selectExisting"
    THEN {selectExistingStep(local, S, E, uuid)}
    ELSE IF local.pc = "insertFirst"
    THEN {insertFirstStep(local, S, E, uuid)}
    ELSE IF local.pc = "selectPrevious"
    THEN {selectPreviousStep(local, S, E, uuid, pick) :
            pick \in PreviousPicks(local, S)}
    ELSE IF local.pc = "insertSnapshot"
    THEN {insertSnapshotStep(local, S, E, uuid)}
    ELSE IF local.pc = "insertEvents"
    THEN {insertEventsStep(local, S, E, uuid)}
    ELSE {}

----------------------------------------------------------------------------
(* The snapshot command (commands/snapshot, commands/utils/errors.ts)      *)

EXIT_CODES ==
    [SUCCESS |-> 0, GENERAL_ERROR |-> 1, INVALID_ARGUMENTS |-> 2,
     API_ERROR |-> 3, DATABASE_ERROR |-> 4]

getExitCodeForError(error) ==
    IF error.name \in {"DatabaseError", "DatabaseConnectionError",
                       "DatabaseTransactionError", "DatabaseConstraintError"}
    THEN EXIT_CODES.DATABASE_ERROR
    ELSE IF error.name \in {"PolymarketAPIError", "NetworkError", "ClientError",
                            "ServerError", "RateLimitError"}
    THEN EXIT_CODES.API_ERROR
    ELSE IF error.name \in {"ValidationError", "ZodError"}
    THEN EXIT_CODES.INVALID_ARGUMENTS
    ELSE EXIT_CODES.GENERAL_ERROR

(* The action of the command: takeSnapshot, then process.exit. *)
handleSnapshotCommand(S, E, uuid0, wallet, api, db, pick) ==
    LET out == takeSnapshot(S, E, uuid0, wallet, api, db, pick)
    IN  [service |-> out,
         exitCode |-> IF out.ok THEN EXIT_CODES.SUCCESS
                      ELSE getExitCodeForError(out.error)]

----------------------------------------------------------------------------
(* State machine *)

Store(S, E) == [snapshots |-> S, events |-> E]

(* What the last call was, what it was given, what it returned, the tables *)
(* as they were when it started, the error as it was first raised and,     *)
(* for a command, the code the process exited with.                        *)
Last(op, wallet, ok, error, id, evs, prev, current, result, calls, before, thrown, db, exitCode) ==
    [op |-> op, wallet |-> wallet, ok |-> ok, error |-> error, id |-> id,
     events |-> evs, prev |-> prev, current |-> current, result |-> result,
     calls |-> calls, before |-> before, thrown |-> thrown, db |-> db,
     exitCode |-> exitCode]

(* The event a caller of the repository passes in, as createTestEvent of   *)
(* test/unit/repositories.test.ts builds it.                               *)
createTestEvent(wallet, eventId) ==
    [createEvent("POSITION_OPENED", wallet, "m1", "T", Null,
                 Some(Position("m1", 1, 0, Some(50), Null, "unresolved")))
     EXCEPT !.eventId = eventId]

EventLists(wallet) ==
    {<<>>}
    \cup {<<createTestEvent(wallet, i)>> : i \in ExternalEventIds}
    \cup {<<createTestEvent(wallet, 101), createTestEvent(wallet, 102)>>}

(* The market is open, the wallet holds its first share, no call was made *)
(* and none is under way.                                                  *)
InitWorld ==
    /\ polymarket = [outcome |-> "unresolved", shares |-> 1]
    /\ recent = <<>>
    /\ inflight = [p \in Procs |-> Idle]

ApiOutcomes ==
    [error : {""}, timestamp : Timestamps, positions : ProviderPositions]
    \cup [error : ApiErrors, timestamp : {1}, positions : {<<>>}]

Init ==
    /\ InitWorld
    /\ snapshots = <<>>
    /\ events = <<>>
    /\ uuidCounter = 0
    /\ last = Last("init", <<>>, TRUE, NoError, 0, <<>>, Null, Null, Null,
                   <<>>, Store(<<>>, <<>>), NoError, NoFault, Null)

SaveFirstSnapshot ==
    /\ UNCHANGED world
    /\ \E w \in Wallets, ts \in Timestamps, ps \in RepositoryPositions :
        LET snapshot == Snapshot(w, ts, ps)
        IN  \E out \in {saveFirstSnapshot(snapshots, events, snapshot)} :
            /\ Len(out.snapshots) <= MaxSnapshots
            /\ snapshots' = out.snapshots
            /\ events' = out.events
            /\ UNCHANGED uuidCounter
            /\ last' = Last("saveFirstSnapshot", w, out.ok, out.error, out.id,
                            <<>>, Null, Null, Null, <<>>,
                            Store(snapshots, events), out.error, NoFault,
                            Null)

SaveSnapshotWithEvents ==
    /\ UNCHANGED world
    /\ \E w \in Wallets, ts \in Timestamps, ps \in RepositoryPositions :
      \E evs \in EventLists(w) : \E pick \in Picks(snapshots, w) :
        LET snapshot == Snapshot(w, ts, ps)
        IN  \E out \in {saveSnapshotWithEvents(snapshots, events, snapshot,
                                                evs, pick)} :
            /\ Len(out.snapshots) <= MaxSnapshots
            /\ snapshots' = out.snapshots
            /\ events' = out.events
            /\ UNCHANGED uuidCounter
            /\ last' = Last("saveSnapshotWithEvents", w, out.ok, out.error,
                            out.id, evs, Null, Null, Null, <<>>,
                            Store(snapshots, events), out.error, NoFault,
                            Null)

GetLatest ==
    /\ UNCHANGED world
    /\ \E w \in Wallets : \E pick \in Picks(snapshots, w) :
        /\ UNCHANGED <<snapshots, events, uuidCounter>>
        /\ last' = Last("getLatest", w, TRUE, NoError, 0, <<>>,
                        getLatest(snapshots, w, pick), Null, Null, <<>>,
                        Store(snapshots, events), NoError, NoFault, Null)

(* The provider's and the driver's behaviours are enumerated where the     *)
(* call can reach them: the provider for a wallet that passes validation,  *)
(* the driver after a provider call that returned.                         *)
TakeSnapshot ==
    /\ UNCHANGED world
    /\ \E wallet \in RawWallets :
      \E api \in IF validateWalletAddress(wallet).ok THEN ApiOutcomes
                 ELSE {CHOOSE a \in ApiOutcomes : a.error # ""} :
      \E db \in IF api.error = "" THEN DbFaults ELSE {NoFault} :
      \E pick \in Picks(snapshots, Sanitize(wallet)) :
        \E out \in {takeSnapshot(snapshots, events, uuidCounter, wallet, api,
                                 db, pick)} :
            /\ Len(out.snapshots) <= MaxSnapshots
            /\ out.uuidCounter <= MaxUuid
            /\ snapshots' = out.snapshots
            /\ events' = out.events
            /\ uuidCounter' = out.uuidCounter
            /\ last' = Last("takeSnapshot", out.wallet, out.ok, out.error, 0,
                            out.diffEvents, out.prev, out.current, out.result,
                            out.calls, Store(snapshots, events), out.thrown,
                            out.db, Null)

SnapshotCommand ==
    /\ UNCHANGED world
    /\ \E wallet \in RawWallets :
      \E api \in IF validateWalletAddress(wallet).ok THEN ApiOutcomes
                 ELSE {CHOOSE a \in ApiOutcomes : a.error # ""} :
      \E db \in IF api.error = "" THEN DbFaults ELSE {NoFault} :
      \E pick \in Picks(snapshots, Sanitize(wallet)) :
        \E cmd \in {handleSnapshotCommand(snapshots, events, uuidCounter,
                                          wallet, api, db, pick)} :
            /\ Len(cmd.service.snapshots) <= MaxSnapshots
            /\ cmd.service.uuidCounter <= MaxUuid
            /\ snapshots' = cmd.service.snapshots
            /\ events' = cmd.service.events
            /\ uuidCounter' = cmd.service.uuidCounter
            /\ last' = Last("snapshotCommand", cmd.service.wallet,
                            cmd.service.ok, cmd.service.error, 0,
                            cmd.service.diffEvents, cmd.service.prev,
                            cmd.service.current, cmd.service.result,
                            cmd.service.calls, Store(snapshots, events),
                            cmd.service.thrown, cmd.service.db,
                            Some(cmd.exitCode))

(* A call of takeSnapshot as the service received it: whether it          *)
(* returned, whether the provider answered, the positions it answered     *)
(* with and the state of the market at that moment.                        *)
CallSummary(wallet, ok, api, market) ==
    [wallet |-> wallet, ok |-> ok, received |-> api.error = "",
     positions |-> api.positions, market |-> market]

(* takeSnapshot of a service built on the Polymarket client and a healthy  *)
(* database, as index.ts wires it.                                         *)
ProviderSnapshot ==
    /\ UNCHANGED <<polymarket, inflight>>
    /\ \E wallet \in {<<"0x", "a">>}, now \in Timestamps, fn \in FetchScripts :
       \E pick \in Picks(snapshots, wallet) :
       \E api \in {getWalletPositions(wallet, fetchPositions(polymarket),
                                      fn, now)} :
       \E out \in {takeSnapshot(snapshots, events, uuidCounter, wallet, api,
                                NoFault, pick)} :
            /\ Len(out.snapshots) <= MaxSnapshots
            /\ out.uuidCounter <= MaxUuid
            /\ snapshots' = out.snapshots
            /\ events' = out.events
            /\ uuidCounter' = out.uuidCounter
            /\ last' = Last("takeSnapshot", out.wallet, out.ok, out.error, 0,
                            out.diffEvents, out.prev, out.current, out.result,
                            out.calls, Store(snapshots, events), out.thrown,
                            out.db, Null)
            /\ recent' = (IF Len(recent) = 0 THEN <<>>
                           ELSE <<recent[Len(recent)]>>)
                    \o <<CallSummary(out.wallet, out.ok, api,
                                     polymarket.outcome)>>

(* Polymarket resolves the market. *)
ResolveMarket ==
    /\ polymarket.outcome = "unresolved"
    /\ \E o \in {"yes", "no"} :
          polymarket' = [polymarket EXCEPT !.outcome = o]
    /\ UNCHANGED <<snapshots, events, uuidCounter, last, recent, inflight>>

(* The wallet buys or sells YES tokens of the open market. *)
Trade ==
    /\ polymarket.outcome = "unresolved"
    /\ \E n \in (1..MaxShares) \ {polymarket.shares} :
          polymarket' = [polymarket EXCEPT !.shares = n]
    /\ UNCHANGED <<snapshots, events, uuidCounter, last, recent, inflight>>

(* A step of the call p: the tables and the call's variables change as   *)
(* the step says, a call that has returned or thrown is idle again.        *)
Commit(p, op, r) ==
    /\ Len(r.snapshots) <= MaxSnapshots
    /\ r.uuidCounter <= MaxUuid
    /\ snapshots' = r.snapshots
    /\ events' = r.events
    /\ uuidCounter' = r.uuidCounter
    /\ inflight' = [inflight EXCEPT
                      ![p] = IF r.local.pc = "done" THEN Idle ELSE r.local]
    /\ last' = Last(op, r.local.wallet,
                    IsNull(r.local.outcome) \/ Get(r.local.outcome).ok,
                    IF IsNull(r.local.outcome) THEN NoError
                    ELSE Get(r.local.outcome).error,
                    uuidCounter, <<>>, Null, Some(inflight[p]), Some(r.local),
                    <<>>, Store(snapshots, events), NoError, NoFault, Null)
    /\ UNCHANGED <<polymarket, recent>>

(* A call starts only while the tables have room for the row it may write. *)
BeginCall(p) ==
    /\ inflight[p].pc = "idle"
    /\ Len(snapshots) + Cardinality({q \in Procs : inflight[q].pc # "idle"})
            < MaxSnapshots
    /\ \E wallet \in Wallets, now \in Timestamps, ps \in ConcurrentPositions :
          Commit(p, "beginCall",
                 StepResult(beginStep(wallet, [error |-> "", timestamp |-> now,
                                               positions |-> ps]),
                            snapshots, events, uuidCounter))

ReadLatest(p) ==
    /\ inflight[p].pc = "getLatest"
    /\ \E r \in StepOutcomes(inflight[p], snapshots, events, uuidCounter) :
          Commit(p, "getLatest", r)

SelectExisting(p) ==
    /\ inflight[p].pc = "selectExisting"
    /\ \E r \in StepOutcomes(inflight[p], snapshots, events, uuidCounter) :
          Commit(p, "selectExisting", r)

InsertFirst(p) ==
    /\ inflight[p].pc = "insertFirst"
    /\ \E r \in StepOutcomes(inflight[p], snapshots, events, uuidCounter) :
          Commit(p, "insertFirst", r)

SelectPrevious(p) ==
    /\ inflight[p].pc = "selectPrevious"
    /\ \E r \in StepOutcomes(inflight[p], snapshots, events, uuidCounter) :
          Commit(p, "selectPrevious", r)

InsertSnapshot(p) ==
    /\ inflight[p].pc = "insertSnapshot"
    /\ \E r \in StepOutcomes(inflight[p], snapshots, events, uuidCounter) :
          Commit(p, "insertSnapshot", r)

InsertEvents(p) ==
    /\ inflight[p].pc = "insertEvents"
    /\ \E r \in StepOutcomes(inflight[p], snapshots, events, uuidCounter) :
          Commit(p, "insertEvents", r)

(* computeDiff applied to a pair of snapshots. *)
InitDiff ==
    /\ InitWorld
    /\ snapshots = <<>>
    /\ events = <<>>
    /\ uuidCounter = 0
    /\ last \in {Last("input", c.wallet, TRUE, NoError, 0, <<>>, p, Some(c),
                       Null, <<>>, Store(<<>>, <<>>), NoError, NoFault, Null) :
                    p \in {Null} \cup {Some(x) : x \in DiffSnapshots},
                    c \in DiffSnapshots}

ComputeDiff ==
    /\ UNCHANGED world
    /\ last.op = "input"
    /\ \E diffEvents \in {computeDiff(last.prev, Get(last.current),
                                       uuidCounter)} :
          /\ uuidCounter' = uuidCounter + Len(diffEvents)
          /\ last' = [last EXCEPT !.op = "computeDiff",
                                  !.events = diffEvents]
    /\ UNCHANGED <<snapshots, events>>

(* calculatePnL applied to the current position of a resolved market. *)
InitPnL ==
    /\ InitWorld
    /\ snapshots = <<>>
    /\ events = <<>>
    /\ uuidCounter = 0
    /\ last \in {Last("input", <<"0x", "a">>, TRUE, NoError, 0, <<>>, Null,
                       Some(p), Null, <<>>, Store(<<>>, <<>>), NoError,
                       NoFault, Null) : p \in PnLPositions}

CalculatePnL ==
    /\ UNCHANGED world
    /\ last.op = "input"
    /\ last' = [last EXCEPT
                  !.op = "calculatePnL",
                  !.result = Some(calculatePnLNumber(Get(last.current),
                                    Get(last.current).resolvedOutcome))]
    /\ UNCHANGED <<snapshots, events, uuidCounter>>

(* withRetry applied to a function whose calls fail or return. *)
InitRetry ==
    /\ InitWorld
    /\ snapshots = <<>>
    /\ events = <<>>
    /\ uuidCounter = 0
    /\ last \in {Last("input", <<>>, TRUE, NoError, 0, <<>>, Null, Some(i),
                       Null, <<>>, Store(<<>>, <<>>), NoError, NoFault, Null) :
                    i \in RetryInputs}

WithRetry ==
    /\ UNCHANGED world
    /\ last.op = "input"
    /\ \E out \in {withRetry(Get(last.current).fn,
                               Get(last.current).config)} :
          last' = [last EXCEPT !.op = "withRetry", !.ok = out.returned,
                               !.result = Some(out)]
    /\ UNCHANGED <<snapshots, events, uuidCounter>>

(* The repository driven directly by its callers. *)
Next ==
    \/ SaveFirstSnapshot
    \/ SaveSnapshotWithEvents
    \/ GetLatest

Spec == Init /\ [][Next]_vars

(* The service: every write goes through takeSnapshot. *)
NextService == TakeSnapshot

SpecService == Init /\ [][NextService]_vars

(* The command line: one snapshot command after the other. *)
NextCommand == SnapshotCommand

SpecCommand == Init /\ [][NextCommand]_vars

(* The service on the Polymarket client, while the market lives. *)
NextProvider ==
    \/ ProviderSnapshot
    \/ ResolveMarket
    \/ Trade

SpecProvider == Init /\ [][NextProvider]_vars

(* Two calls of takeSnapshot at a time, interleaved at their awaits. *)
NextConcurrent ==
    \/ \E p \in Procs : BeginCall(p)
    \/ \E p \in Procs : ReadLatest(p)
    \/ \E p \in Procs : SelectExisting(p)
    \/ \E p \in Procs : InsertFirst(p)
    \/ \E p \in Procs : SelectPrevious(p)
    \/ \E p \in Procs : InsertSnapshot(p)
    \/ \E p \in Procs : InsertEvents(p)

SpecConcurrent == Init /\ [][NextConcurrent]_vars

(* The diff engine on its own. *)
NextDiff == ComputeDiff

SpecDiff == InitDiff /\ [][NextDiff]_vars

(* The retry loop on its own. *)
NextRetry == WithRetry

SpecRetry == InitRetry /\ [][NextRetry]_vars

(* The PnL calculator on its own. *)
NextPnL == CalculatePnL

SpecPnL == InitPnL /\ [][NextPnL]_vars

----------------------------------------------------------------------------
(* Readings of the tables used by the properties *)

SnapshotIds(S) == {S[i].id : i \in 1..Len(S)}

EventsOfSnapshot(E, snapshotId) ==
    {r \in 1..Len(E) : E[r].snapshotId = snapshotId}

(* The snapshot of the wallet that was created last. *)
LastCreated(S, wallet) ==
    CHOOSE i \in WalletRows(S, wallet) : \A j \in WalletRows(S, wallet) : j <= i

(* The rows of the wallet created before row i. *)
EarlierRows(S, i) == {j \in WalletRows(S, S[i].wallet) : j < i}

StoreUnchanged ==
    /\ snapshots = last.before.snapshots
    /\ events = last.before.events

(* No append has failed half-way: every row written by                     *)
(* saveSnapshotWithEvents has its events.                                  *)
EveryAppendSucceeded ==
    \A i \in 1..Len(snapshots) :
        ~IsNull(snapshots[i].prevSnapshotId)
            => EventsOfSnapshot(events, snapshots[i].id) # {}

(* At every moment so far each wallet had at most one snapshot with its    *)
(* greatest timestamp, so that every ORDER BY timestamp query made so far  *)
(* and the next one have one answer.                                       *)
QueriesDetermined ==
    \A n \in 0..Len(snapshots) : \A w \in Wallets :
        Cardinality(LatestIds(SubSeq(snapshots, 1, n), w)) <= 1

EventInsertFailed ==
    /\ last.op = "saveSnapshotWithEvents"
    /\ ~last.ok
    /\ last.error.message = "Database constraint violation during transaction"

----------------------------------------------------------------------------
(* C1: when saveSnapshotWithEvents fails at the event insertion, after the *)
(* call the wallet's snapshots, the answer of getLatest and the stored     *)
(* events are what they were before the call.                              *)
C1_AppendIsAtomic ==
    EventInsertFailed =>
        /\ StoreUnchanged
        /\ LatestIds(snapshots, last.wallet)
             = LatestIds(last.before.snapshots, last.wallet)

(* C2: after successful saveFirstSnapshot and saveSnapshotWithEvents calls *)
(* every snapshot of a wallet but its first has as predecessor the         *)
(* snapshot of that wallet persisted immediately before it, and no         *)
(* snapshot is the predecessor of two snapshots, whatever the timestamps.  *)
(* Stated on the stores whose timestamps left the engine no choice.        *)
C2_UnbranchedChain ==
    (EveryAppendSucceeded /\ QueriesDetermined) =>
        /\ \A i \in 1..Len(snapshots) :
              IF EarlierRows(snapshots, i) = {}
              THEN IsNull(snapshots[i].prevSnapshotId)
              ELSE snapshots[i].prevSnapshotId =
                     Some(snapshots[CHOOSE j \in EarlierRows(snapshots, i) :
                            \A k \in EarlierRows(snapshots, i) : k <= j].id)
        /\ \A i, j \in 1..Len(snapshots) :
              (i # j /\ ~IsNull(snapshots[i].prevSnapshotId))
                  => snapshots[i].prevSnapshotId # snapshots[j].prevSnapshotId

(* C3: after successful writes getLatest(w) returns the snapshot of w that *)
(* was created last, also when timestamps are equal or not increasing,     *)
(* and null exactly when w has no snapshot. Stated on the stores whose     *)
(* timestamps left the engine no choice.                                   *)
C3_GetLatestIsLastCreated ==
    (last.op = "getLatest" /\ EveryAppendSucceeded /\ QueriesDetermined) =>
        IF WalletRows(snapshots, last.wallet) = {}
        THEN IsNull(last.prev)
        ELSE last.prev =
               Some([id |-> snapshots[LastCreated(snapshots, last.wallet)].id,
                     snapshot |->
                       snapshots[LastCreated(snapshots, last.wallet)].snapshotData])

(* C4: every stored event's snapshotId is the id of a stored snapshot, and *)
(* every non-null prevSnapshotId is the id of a stored snapshot of the     *)
(* same wallet.                                                            *)
C4_ReferentialIntegrity ==
    /\ \A r \in 1..Len(events) : events[r].snapshotId \in SnapshotIds(snapshots)
    /\ \A i \in 1..Len(snapshots) :
          ~IsNull(snapshots[i].prevSnapshotId) =>
              \E j \in 1..Len(snapshots) :
                  /\ snapshots[j].id = Get(snapshots[i].prevSnapshotId)
                  /\ snapshots[j].wallet = snapshots[i].wallet

C4_Witness ==
    /\ \E i, j \in 1..Len(snapshots) :
          /\ ~IsNull(snapshots[i].prevSnapshotId)
          /\ snapshots[j].wallet # snapshots[i].wallet
    /\ Len(events) > 0

(* C5: a snapshot without predecessor has no events, and every snapshot    *)
(* with a predecessor has at least one event.                              *)
C5_EventsIffPredecessor ==
    \A i \in 1..Len(snapshots) :
        IF IsNull(snapshots[i].prevSnapshotId)
        THEN EventsOfSnapshot(events, snapshots[i].id) = {}
        ELSE EventsOfSnapshot(events, snapshots[i].id) # {}

(* C6: saveFirstSnapshot for a wallet that already has a snapshot fails    *)
(* with the duplicate-initialization error and adds no row.                *)
C6_DuplicateInitialization ==
    (/\ last.op = "saveFirstSnapshot"
     /\ WalletRows(last.before.snapshots, last.wallet) # {}) =>
        /\ ~last.ok
        /\ last.error = Err("DatabaseConstraintError", "already has snapshots")
        /\ StoreUnchanged

C6_Witness ==
    /\ last.op = "saveFirstSnapshot"
    /\ WalletRows(last.before.snapshots, last.wallet) # {}
    /\ Len(last.before.events) > 0

(* C7: saveSnapshotWithEvents with a non-empty event list for a wallet     *)
(* without snapshot fails with the no-predecessor error and writes neither *)
(* a snapshot row nor an event.                                            *)
C7_NoPredecessor ==
    (/\ last.op = "saveSnapshotWithEvents"
     /\ Len(last.events) > 0
     /\ WalletRows(last.before.snapshots, last.wallet) = {}) =>
        /\ ~last.ok
        /\ last.error = Err("Error", "no previous snapshot exists")
        /\ StoreUnchanged

C7_Witness ==
    /\ last.op = "saveSnapshotWithEvents"
    /\ Len(last.events) > 0
    /\ WalletRows(last.before.snapshots, last.wallet) = {}
    /\ Len(last.before.snapshots) > 0

(* C8: saveSnapshotWithEvents with an empty event list fails with the      *)
(* empty-event-set error, whether or not the wallet has a snapshot, and    *)
(* nothing is written.                                                     *)
C8_EmptyEventSet ==
    (last.op = "saveSnapshotWithEvents" /\ Len(last.events) = 0) =>
        /\ ~last.ok
        /\ last.error = Err("Error", "at least one event is required")
        /\ StoreUnchanged

C8_Witness ==
    /\ last.op = "saveSnapshotWithEvents"
    /\ Len(last.events) = 0
    /\ WalletRows(last.before.snapshots, last.wallet) # {}

----------------------------------------------------------------------------
(* Properties of takeSnapshot, under SpecService *)

StripIds(evs) == [k \in 1..Len(evs) |-> [evs[k] EXCEPT !.eventId = 0]]

CallsOf(fn) == SelectSeq(last.calls, LAMBDA c : c.fn = fn)

(* takeSnapshot got a snapshot from the provider for a wallet that had a   *)
(* snapshot in the store.                                                  *)
TookSnapshotWithPrevious ==
    /\ last.op = "takeSnapshot"
    /\ ~IsNull(last.current)
    /\ WalletRows(last.before.snapshots, last.wallet) # {}
    /\ ~IsNull(last.prev)

(* computeDiff(previous, current) of the last takeSnapshot, without ids. *)
LastDiff ==
    StripIds(computeDiff(Some(Get(last.prev).snapshot), Get(last.current), 0))

(* C9: with a previous snapshot and an empty diff takeSnapshot returns     *)
(* events [], isFirstSnapshot false, saved false and writes nothing: the   *)
(* snapshots, the events and the answer of getLatest stay as they were.    *)
C9_NoChangeNoWrite ==
    (TookSnapshotWithPrevious /\ Len(LastDiff) = 0) =>
        /\ last.ok
        /\ ~IsNull(last.result)
        /\ Get(last.result).snapshot = Get(last.current)
        /\ Get(last.result).events = <<>>
        /\ Get(last.result).isFirstSnapshot = FALSE
        /\ Get(last.result).saved = FALSE
        /\ Len(CallsOf("saveFirstSnapshot")) = 0
        /\ Len(CallsOf("saveSnapshotWithEvents")) = 0
        /\ StoreUnchanged
        /\ LatestIds(snapshots, last.wallet)
             = LatestIds(last.before.snapshots, last.wallet)

C9_Witness ==
    /\ TookSnapshotWithPrevious
    /\ Len(LastDiff) = 0
    /\ Len(Get(last.current).positions) > 0
    /\ Len(events) > 0

(* C10: with a previous snapshot, a non-empty diff and a driver that       *)
(* raises nothing takeSnapshot calls                                       *)
(* saveSnapshotWithEvents once, with the current snapshot and the diff     *)
(* events, and returns saved true with every returned event carrying the   *)
(* id of the new snapshot row, under which these events are stored.        *)
C10_ChangeIsAppended ==
    (TookSnapshotWithPrevious /\ Len(LastDiff) > 0 /\ last.db = NoFault) =>
        LET saves == CallsOf("saveSnapshotWithEvents")
            newId == Len(last.before.snapshots) + 1
            n == Len(LastDiff)
            stored == Len(last.before.events)
        IN  /\ Len(saves) = 1
            /\ Len(CallsOf("saveFirstSnapshot")) = 0
            /\ saves[1].snapshot = last.current
            /\ StripIds(saves[1].events) = LastDiff
            /\ last.ok
            /\ ~IsNull(last.result)
            /\ Get(last.result).saved = TRUE
            /\ Get(last.result).isFirstSnapshot = FALSE
            /\ Get(last.result).snapshot = Get(last.current)
            /\ Len(Get(last.result).events) = n
            /\ Len(snapshots) = newId
            /\ SubSeq(snapshots, 1, newId - 1) = last.before.snapshots
            /\ snapshots[newId].id = newId
            /\ snapshots[newId].snapshotData = Get(last.current)
            /\ Len(events) = stored + n
            /\ SubSeq(events, 1, stored) = last.before.events
            /\ \A k \in 1..n :
                  /\ Get(last.result).events[k].snapshotId = newId
                  /\ Get(last.result).events[k].eventId
                       = saves[1].events[k].eventId
                  /\ [Get(last.result).events[k] EXCEPT !.snapshotId = 0]
                       = [f \in DOMAIN saves[1].events[k] \cup {"snapshotId"} |->
                             IF f = "snapshotId" THEN 0
                             ELSE saves[1].events[k][f]]
                  /\ events[stored + k].id = saves[1].events[k].eventId
                  /\ events[stored + k].snapshotId = newId
                  /\ events[stored + k].eventType = LastDiff[k].eventType
                  /\ events[stored + k].marketId = LastDiff[k].marketId

C10_Witness ==
    /\ TookSnapshotWithPrevious
    /\ Len(LastDiff) > 1
    /\ last.ok
    /\ Len(last.before.events) > 0

----------------------------------------------------------------------------
(* Properties of takeSnapshot on its other paths *)

DatabaseErrorNames ==
    {"DatabaseError", "DatabaseConnectionError", "DatabaseTransactionError",
     "DatabaseConstraintError"}

(* takeSnapshot got a snapshot from the provider for a wallet without      *)
(* snapshot in the store, and the driver raised nothing.                   *)
TookFirstSnapshot ==
    /\ last.op = "takeSnapshot"
    /\ ~IsNull(last.current)
    /\ WalletRows(last.before.snapshots, last.wallet) = {}
    /\ last.db = NoFault

(* C11: for a wallet without persisted snapshot takeSnapshot calls         *)
(* saveFirstSnapshot once, with the fetched snapshot, never                *)
(* saveSnapshotWithEvents, and returns events [], isFirstSnapshot true,    *)
(* saved true, whatever positions the fetched snapshot holds; the store    *)
(* gains that snapshot, without predecessor, and no event.                 *)
C11_FirstSnapshotInitializes ==
    TookFirstSnapshot =>
        LET firsts == CallsOf("saveFirstSnapshot")
            newId == Len(last.before.snapshots) + 1
        IN  /\ Len(firsts) = 1
            /\ firsts[1].snapshot = last.current
            /\ Len(CallsOf("saveSnapshotWithEvents")) = 0
            /\ last.ok
            /\ ~IsNull(last.result)
            /\ Get(last.result).snapshot = Get(last.current)
            /\ Get(last.result).events = <<>>
            /\ Get(last.result).isFirstSnapshot = TRUE
            /\ Get(last.result).saved = TRUE
            /\ Len(snapshots) = newId
            /\ SubSeq(snapshots, 1, newId - 1) = last.before.snapshots
            /\ snapshots[newId].snapshotData = Get(last.current)
            /\ IsNull(snapshots[newId].prevSnapshotId)
            /\ events = last.before.events

C11_Witness ==
    /\ TookFirstSnapshot
    /\ Len(Get(last.current).positions) > 0
    /\ Get(last.current).positions[1].resolvedOutcome # "unresolved"

(* The wallet given to the last takeSnapshot does not pass validation. *)
TookInvalidWallet ==
    /\ last.op = "takeSnapshot"
    /\ \/ Len(Sanitize(last.wallet)) = 0
       \/ ~MatchesAddressPattern(Sanitize(last.wallet))

(* C12: for a wallet that fails validation takeSnapshot fails with a       *)
(* ValidationError, and calls neither the provider nor any repository      *)
(* operation; the store is as it was.                                      *)
C12_InvalidWalletNoIO ==
    TookInvalidWallet =>
        /\ ~last.ok
        /\ IsNull(last.result)
        /\ last.error.name = "ValidationError"
        /\ last.error = last.thrown
        /\ last.calls = <<>>
        /\ StoreUnchanged

C12_Witness ==
    /\ TookInvalidWallet
    /\ Len(Sanitize(last.wallet)) > 0
    /\ Len(last.before.snapshots) > 0

(* C13: a constraint violation raised by a repository operation during     *)
(* takeSnapshot reaches the caller of takeSnapshot as the same error, its   *)
(* type preserved.                                                         *)
C13_StorageErrorAsIs ==
    (last.op = "takeSnapshot" /\ last.thrown.name = "DatabaseConstraintError") =>
        /\ ~last.ok
        /\ last.error = last.thrown
        /\ last.error.name = "DatabaseConstraintError"

(* A collaborator of the last takeSnapshot raised an error. *)
CollaboratorFailed ==
    /\ last.op = "takeSnapshot"
    /\ Len(last.calls) > 0
    /\ last.thrown # NoError

(* C14: when the provider or a repository operation raises an error,       *)
(* takeSnapshot fails, without result, with that error unchanged or with    *)
(* an error that carries its message and names the wallet.                 *)
C14_NoErrorSwallowed ==
    CollaboratorFailed =>
        /\ ~last.ok
        /\ IsNull(last.result)
        /\ \/ last.error = last.thrown
           \/ /\ last.error.message = last.thrown.message
              /\ ~IsNull(last.error.context)
              /\ Sanitize(Get(last.error.context)) = last.wallet
              /\ last.error.causeName = last.thrown.name

C14_Witness ==
    /\ CollaboratorFailed
    /\ last.error # last.thrown
    /\ last.calls[Len(last.calls)].fn = "saveSnapshotWithEvents"

(* C15: when takeSnapshot fails in the snapshot command because a          *)
(* repository operation raised a DatabaseError or one of its subclasses,   *)
(* the command exits with code 4.                                          *)
C15_DatabaseErrorExitsWith4 ==
    (last.op = "snapshotCommand" /\ last.thrown.name \in DatabaseErrorNames) =>
        last.exitCode = Some(4)

----------------------------------------------------------------------------
(* Properties of computeDiff, under SpecDiff *)

(* computeDiff has been applied to a previous and a current snapshot. *)
Diffed == last.op = "computeDiff" /\ ~IsNull(last.prev)

MarketsOf(snapshot) ==
    {snapshot.positions[i].marketId : i \in 1..Len(snapshot.positions)}

DiffMarkets == MarketsOf(Get(last.prev)) \cup MarketsOf(Get(last.current))

PrevPosition(m) == MapGet(Get(last.prev).positions, m)
CurrPosition(m) == MapGet(Get(last.current).positions, m)

(* The events of the last diff for market m, in the order of the list. *)
EventsFor(m) == SelectSeq(last.events, LAMBDA e : e.marketId = m)

EventsOfType(m, type) ==
    SelectSeq(last.events, LAMBDA e : e.marketId = m /\ e.eventType = type)

(* Market m is in both snapshots, with the same shares and prices. *)
SamePosition(m) ==
    /\ ~IsNull(PrevPosition(m))
    /\ ~IsNull(CurrPosition(m))
    /\ Get(PrevPosition(m)).yesShares = Get(CurrPosition(m)).yesShares
    /\ Get(PrevPosition(m)).noShares = Get(CurrPosition(m)).noShares
    /\ Get(PrevPosition(m)).yesAvgPrice = Get(CurrPosition(m)).yesAvgPrice
    /\ Get(PrevPosition(m)).noAvgPrice = Get(CurrPosition(m)).noAvgPrice

Resolves(m, from, to) ==
    /\ Get(PrevPosition(m)).resolvedOutcome = from
    /\ Get(CurrPosition(m)).resolvedOutcome = to

(* C16: a market in both snapshots with the same shares and prices yields  *)
(* one event, a MARKET_RESOLVED with the pnl of calculatePnL, when its     *)
(* outcome goes from unresolved to yes, and no event when its outcome is   *)
(* yes in both.                                                            *)
C16_ResolutionOnce ==
    Diffed =>
        \A m \in DiffMarkets :
            /\ (SamePosition(m) /\ Resolves(m, "unresolved", "yes")) =>
                  /\ Len(EventsFor(m)) = 1
                  /\ EventsFor(m)[1].eventType = "MARKET_RESOLVED"
                  /\ EventsFor(m)[1].pnl =
                        Some(calculatePnL(Get(CurrPosition(m)), "yes"))
                  /\ EventsFor(m)[1].resolvedOutcome = "yes"
            /\ (SamePosition(m) /\ Resolves(m, "yes", "yes")) =>
                  Len(EventsFor(m)) = 0

C16_Witness ==
    /\ Diffed
    /\ \E m, n \in DiffMarkets :
          /\ SamePosition(m) /\ Resolves(m, "unresolved", "yes")
          /\ SamePosition(n) /\ Resolves(n, "yes", "yes")
          /\ Get(CurrPosition(m)).yesShares > 1

(* The shares of market m, present in both snapshots, differ. *)
SharesChanged(m) ==
    /\ ~IsNull(PrevPosition(m))
    /\ ~IsNull(CurrPosition(m))
    /\ \/ Get(PrevPosition(m)).yesShares # Get(CurrPosition(m)).yesShares
       \/ Get(PrevPosition(m)).noShares # Get(CurrPosition(m)).noShares

(* C17: a market in both snapshots whose shares change and whose outcome   *)
(* goes from unresolved to a resolved value yields two events, a           *)
(* POSITION_UPDATED followed by a MARKET_RESOLVED.                         *)
C17_UpdatedThenResolved ==
    Diffed =>
        \A m \in DiffMarkets :
            (/\ SharesChanged(m)
             /\ Get(PrevPosition(m)).resolvedOutcome = "unresolved"
             /\ Get(CurrPosition(m)).resolvedOutcome # "unresolved") =>
                /\ Len(EventsFor(m)) = 2
                /\ EventsFor(m)[1].eventType = "POSITION_UPDATED"
                /\ EventsFor(m)[2].eventType = "MARKET_RESOLVED"

C17_Witness ==
    /\ Diffed
    /\ \E m \in DiffMarkets :
          /\ SharesChanged(m)
          /\ Resolves(m, "unresolved", "invalid")
    /\ Len(last.events) > 2

(* Every position of snapshot a is in snapshot b, unchanged. *)
Extends(a, b) ==
    \A m \in MarketsOf(a) : MapGet(b.positions, m) = MapGet(a.positions, m)

AllOfType(type) == SelectSeq(last.events, LAMBDA e : e.eventType = type)

(* C18: from snapshot(A) to snapshot(A u B), A and B on disjoint markets,  *)
(* computeDiff yields one POSITION_OPENED for each market of B and no      *)
(* POSITION_CLOSED or POSITION_UPDATED.                                    *)
C18_OpenedPerNewMarket ==
    (Diffed /\ Extends(Get(last.prev), Get(last.current))) =>
        LET A == MarketsOf(Get(last.prev))
            B == MarketsOf(Get(last.current)) \ A
        IN  /\ \A m \in B : Len(EventsOfType(m, "POSITION_OPENED")) = 1
            /\ \A m \in A : Len(EventsOfType(m, "POSITION_OPENED")) = 0
            /\ Len(AllOfType("POSITION_CLOSED")) = 0
            /\ Len(AllOfType("POSITION_UPDATED")) = 0

C18_Witness ==
    /\ Diffed
    /\ Extends(Get(last.prev), Get(last.current))
    /\ MarketsOf(Get(last.prev)) # {}
    /\ MarketsOf(Get(last.current)) \ MarketsOf(Get(last.prev)) # {}
    /\ Get(last.current).positions[1].marketId \notin MarketsOf(Get(last.prev))

(* C19: from snapshot(A u B) to snapshot(A), A and B on disjoint markets,  *)
(* computeDiff yields one POSITION_CLOSED for each market of B.            *)
C19_ClosedPerGoneMarket ==
    (Diffed /\ Extends(Get(last.current), Get(last.prev))) =>
        LET A == MarketsOf(Get(last.current))
            B == MarketsOf(Get(last.prev)) \ A
        IN  /\ \A m \in B : Len(EventsOfType(m, "POSITION_CLOSED")) = 1
            /\ \A m \in A : Len(EventsOfType(m, "POSITION_CLOSED")) = 0
            /\ Len(last.events) = Cardinality(B)

C19_Witness ==
    /\ Diffed
    /\ Extends(Get(last.current), Get(last.prev))
    /\ MarketsOf(Get(last.current)) # {}
    /\ MarketsOf(Get(last.prev)) \ MarketsOf(Get(last.current)) # {}

(* C20: computeDiff(s, s) is the empty list, for a snapshot s with         *)
(* resolved and unresolved positions alike.                                *)
C20_NoOpStability ==
    (Diffed /\ Get(last.prev) = Get(last.current)) => last.events = <<>>

C20_Witness ==
    /\ Diffed
    /\ Get(last.prev) = Get(last.current)
    /\ \E i, j \in 1..Len(Get(last.current).positions) :
          /\ Get(last.current).positions[i].resolvedOutcome = "unresolved"
          /\ Get(last.current).positions[j].resolvedOutcome # "unresolved"

(* The place of market m in a list of positions. *)
PositionIndex(positions, m) ==
    CHOOSE i \in 1..Len(positions) : positions[i].marketId = m

(* C21: in the list computeDiff returns every POSITION_OPENED,             *)
(* POSITION_UPDATED and MARKET_RESOLVED comes before every                 *)
(* POSITION_CLOSED; the former follow the order of the current positions,  *)
(* the latter the order of the previous positions.                         *)
C21_EventOrder ==
    Diffed =>
        \A i, j \in 1..Len(last.events) :
            i < j =>
                LET a == last.events[i]
                    b == last.events[j]
                    prevPositions == Get(last.prev).positions
                    currPositions == Get(last.current).positions
                IN  /\ a.eventType = "POSITION_CLOSED"
                          => b.eventType = "POSITION_CLOSED"
                    /\ b.eventType # "POSITION_CLOSED" =>
                          PositionIndex(currPositions, a.marketId)
                              <= PositionIndex(currPositions, b.marketId)
                    /\ a.eventType = "POSITION_CLOSED" =>
                          PositionIndex(prevPositions, a.marketId)
                              < PositionIndex(prevPositions, b.marketId)

C21_Witness ==
    /\ Diffed
    /\ Len(last.events) = 3
    /\ last.events[1].eventType = "POSITION_UPDATED"
    /\ last.events[2].eventType = "MARKET_RESOLVED"
    /\ last.events[3].eventType = "POSITION_CLOSED"
    /\ Get(last.prev).positions[1].marketId = last.events[3].marketId

(* Market m is in both snapshots. *)
InBoth(m) == ~IsNull(PrevPosition(m)) /\ ~IsNull(CurrPosition(m))

(* C25: for a market in both snapshots computeDiff emits one               *)
(* POSITION_UPDATED when one of yesShares, noShares, yesAvgPrice and       *)
(* noAvgPrice differs and none when all four are equal, and the event      *)
(* carries the previous and the current value of all four fields.          *)
C25_UpdatedOnChange ==
    Diffed =>
        \A m \in DiffMarkets :
            InBoth(m) =>
                LET updated == EventsOfType(m, "POSITION_UPDATED")
                    prev == Get(PrevPosition(m))
                    curr == Get(CurrPosition(m))
                IN  /\ Len(updated) = IF SamePosition(m) THEN 0 ELSE 1
                    /\ \A k \in 1..Len(updated) :
                          /\ updated[k].prevYesShares = Some(prev.yesShares)
                          /\ updated[k].prevNoShares = Some(prev.noShares)
                          /\ updated[k].prevYesAvgPrice = prev.yesAvgPrice
                          /\ updated[k].prevNoAvgPrice = prev.noAvgPrice
                          /\ updated[k].currYesShares = Some(curr.yesShares)
                          /\ updated[k].currNoShares = Some(curr.noShares)
                          /\ updated[k].currYesAvgPrice = curr.yesAvgPrice
                          /\ updated[k].currNoAvgPrice = curr.noAvgPrice

(* A market whose price alone changed, next to one that did not change. *)
C25_Witness ==
    /\ Diffed
    /\ \E m, n \in DiffMarkets :
          /\ InBoth(m) /\ InBoth(n) /\ SamePosition(n)
          /\ ~SharesChanged(m)
          /\ Get(PrevPosition(m)).yesAvgPrice # Get(CurrPosition(m)).yesAvgPrice
          /\ Len(EventsOfType(m, "POSITION_UPDATED")) = 1
          /\ Len(EventsOfType(n, "POSITION_UPDATED")) = 0

(* A resolution is known for market m from the position o. *)
ResolutionKnown(o) == ~IsNull(o) /\ Get(o).resolvedOutcome # "unresolved"

(* C26: an event of computeDiff carries resolvedOutcome = unresolved only  *)
(* when neither the previous nor the current position of its market has a  *)
(* resolved outcome.                                                       *)
C26_ResolutionCarried ==
    Diffed =>
        \A k \in 1..Len(last.events) :
            last.events[k].resolvedOutcome = "unresolved" =>
                /\ ~ResolutionKnown(PrevPosition(last.events[k].marketId))
                /\ ~ResolutionKnown(CurrPosition(last.events[k].marketId))

----------------------------------------------------------------------------
(* Properties of calculatePnL, under SpecPnL *)

(* The pnl of the stated formulas, in units of 1 / PriceScale. *)
StatedPnL(position) ==
    IF position.resolvedOutcome = "yes"
    THEN position.yesShares * (PriceScale - OrZero(position.yesAvgPrice))
         - position.noShares * OrZero(position.noAvgPrice)
    ELSE IF position.resolvedOutcome = "no"
    THEN position.noShares * (PriceScale - OrZero(position.noAvgPrice))
         - position.yesShares * OrZero(position.yesAvgPrice)
    ELSE 0

(* C22: the pnl of a resolved position is yesShares * (1 - yesAvgPrice) -  *)
(* noShares * noAvgPrice for outcome yes, noShares * (1 - noAvgPrice) -    *)
(* yesShares * yesAvgPrice for outcome no and 0 for outcome invalid, a     *)
(* null price counting as 0: 200 yes shares at 0.55 give the number 90.    *)
C22_PnLFormula ==
    last.op = "calculatePnL" =>
        Get(last.result) = NumberOfDecimal(StatedPnL(Get(last.current)))

----------------------------------------------------------------------------
(* Properties of the service on the Polymarket client, under SpecProvider *)

(* The last two calls returned, for the same wallet. *)
TwoCalls ==
    /\ last.op = "takeSnapshot"
    /\ Len(recent) = 2
    /\ recent[1].ok /\ recent[2].ok
    /\ recent[1].wallet = recent[2].wallet

(* C23: when a market the wallet holds resolves between two takeSnapshot   *)
(* calls that get their snapshots from getWalletPositions, the later call  *)
(* returns a MARKET_RESOLVED event for the market, with its pnl.           *)
C23_ResolutionReported ==
    (/\ TwoCalls
     /\ recent[1].market = "unresolved"
     /\ recent[2].market # "unresolved") =>
        \E k \in 1..Len(Get(last.result).events) :
            /\ Get(last.result).events[k].eventType = "MARKET_RESOLVED"
            /\ Get(last.result).events[k].marketId = "m1"
            /\ ~IsNull(Get(last.result).events[k].pnl)

(* C27: when two consecutive takeSnapshot calls for a wallet receive the   *)
(* same positions from the provider, the second returns saved false and    *)
(* no events and writes nothing.                                           *)
C27_SamePositionsNoSave ==
    (/\ TwoCalls
     /\ recent[1].positions = recent[2].positions) =>
        /\ Get(last.result).saved = FALSE
        /\ Get(last.result).events = <<>>
        /\ StoreUnchanged

----------------------------------------------------------------------------
(* Properties of concurrent calls, under SpecConcurrent *)

(* The snapshots of the wallet that have no predecessor. *)
Roots(S, wallet) ==
    {i \in WalletRows(S, wallet) : IsNull(S[i].prevSnapshotId)}

(* C28: however two concurrent takeSnapshot calls for a wallet without a   *)
(* snapshot interleave, the store has at most one snapshot of the wallet   *)
(* without a predecessor.                                                  *)
C28_SingleRoot ==
    \A wallet \in Wallets : Cardinality(Roots(snapshots, wallet)) <= 1

(* The events INSERT of snapshot i is still to come. *)
EventsPending(i) ==
    \E p \in Procs :
        inflight[p].pc = "insertEvents" /\ inflight[p].snapshotId = i

StoredEvents(i) ==
    LET rows == SelectSeq(events, LAMBDA e : e.snapshotId = i)
    IN  [k \in 1..Len(rows) |-> [rows[k] EXCEPT !.id = 0]]

DiffOfLink(i) ==
    LET diffEvents ==
            computeDiff(Some(snapshots[Get(snapshots[i].prevSnapshotId)].snapshotData),
                        snapshots[i].snapshotData, 0)
    IN  [k \in 1..Len(diffEvents) |->
            [EventRow(diffEvents[k], i) EXCEPT !.id = 0]]

(* C29: the events stored under a snapshot that has a predecessor are      *)
(* computeDiff(P, S) without the ids, P being the snapshot the predecessor *)
(* link of S points to, also when calls for the wallet interleave.         *)
C29_EventsOfLink ==
    \A i \in 1..Len(snapshots) :
        (~IsNull(snapshots[i].prevSnapshotId) /\ ~EventsPending(i)) =>
            StoredEvents(i) = DiffOfLink(i)

ConcurrentSteps ==
    {"getLatest", "selectExisting", "insertFirst", "selectPrevious",
     "insertSnapshot", "insertEvents"}

WalletSnapshots(S, wallet) == SelectSeq(S, LAMBDA row : row.wallet = wallet)

WalletEvents(E, wallet) == SelectSeq(E, LAMBDA row : row.wallet = wallet)

LatestOf(S, wallet) ==
    {getLatest(S, wallet, pick) : pick \in Picks(S, wallet)}

(* The tables with the rows of the other wallets blanked: they keep their  *)
(* ids and belong to nobody.                                               *)
Nobody == <<"0x", "nobody">>

EraseOtherSnapshots(S, wallet) ==
    [i \in 1..Len(S) |->
        IF S[i].wallet = wallet THEN S[i]
        ELSE [S[i] EXCEPT !.wallet = Nobody,
                          !.snapshotData = Snapshot(Nobody, 1, <<>>),
                          !.timestamp = 1, !.prevSnapshotId = Null]]

EraseOtherEvents(E, wallet) ==
    [i \in 1..Len(E) |->
        IF E[i].wallet = wallet THEN E[i]
        ELSE [E[i] EXCEPT !.wallet = Nobody]]

(* What a step gives the wallet it works for. *)
StepView(r, wallet) ==
    <<r.local, WalletSnapshots(r.snapshots, wallet),
      WalletEvents(r.events, wallet), r.uuidCounter>>

----------------------------------------------------------------------------
(* Properties of withRetry, under SpecRetry *)

Retried == last.op = "withRetry"

RetryableErrors == {"NetworkError", "ServerError", "RateLimitError"}

(* C24: withRetry calls fn again only after a NetworkError, ServerError or *)
(* RateLimitError and while fewer than maxRetries + 1 calls were made; it  *)
(* then stops with the value of the first successful call or the last      *)
(* error, so fn is called at most maxRetries + 1 times, and once when the  *)
(* first call fails with a ClientError.                                    *)
C24_RetryPolicy ==
    Retried =>
        LET fn == Get(last.current).fn
            config == Get(last.current).config
            out == Get(last.result)
        IN  /\ out.calls >= 1
            /\ out.calls <= config.maxRetries + 1
            /\ \A i \in 1..(out.calls - 1) :
                  fn[i] \in RetryableErrors /\ i < config.maxRetries + 1
            /\ IF fn[out.calls] = "ok"
               THEN out.returned /\ out.value = out.calls
               ELSE ~out.returned /\ out.error = fn[out.calls]
            /\ fn[1] = "ClientError" => out.calls = 1

(* A call that was retried until the attempts ran out, and one that a      *)
(* ClientError stopped after an earlier retry.                             *)
C24_Witness ==
    /\ Retried
    /\ Get(last.result).calls = Get(last.current).config.maxRetries + 1
    /\ Get(last.result).calls >= 3
    /\ ~Get(last.result).returned
    /\ Get(last.result).error \in RetryableErrors

====
